---------------------------- MODULE Spec2Model ----------------------------
(***************************************************************************)
(* A model of the YouTube MCP tool layer (src/main.py) and of its dispatch *)
(* boundary (src/server.py).                                               *)
(*                                                                         *)
(* One tool invocation is a state machine: `tool' and `args' are fixed at  *)
(* the start, `pc' is the position in the tool's code, `loc' holds the     *)
(* tool's local variables, `calls' is the log of external HTTP calls the   *)
(* invocation has issued so far (with the status of each), and `out' is    *)
(* the way the invocation ended (a returned value or a raised exception).  *)
(* A step runs the code from one position through at most one loop         *)
(* iteration; what the upstream answers to a call is chosen with \E.       *)
(*                                                                         *)
(* Strings are modelled as sequences of atoms (one atom stands for one     *)
(* character, or for the literal word "channel").                          *)
(***************************************************************************)
EXTENDS Integers, Sequences, FiniteSets, TLC

VARIABLES tool, args, pc, loc, calls, out

vars == <<tool, args, pc, loc, calls, out>>

-----------------------------------------------------------------------------
(* Outcomes of a function: still running, returned, or raised.             *)

Running == [kind |-> "none", value |-> <<>>, exc |-> "", msg |-> ""]

Return(v) == [kind |-> "return", value |-> v, exc |-> "", msg |-> ""]

Raise(e, m) == [kind |-> "raise", value |-> <<>>, exc |-> e, msg |-> m]

(* The spec's error taxonomy, read off the raise sites of src/main.py: all *)
(* caller faults are ValueError, told apart by their message.              *)
InvalidInputMsgs ==
    { "video_ids must not be empty.", "channel_urls must not be empty.",
      "Unsupported channel URL format", "metric must be one of",
      "No videos found for this channel.", "Unknown tool" }

NotFoundMsgs ==
    { "No channel found for handle", "Channel not found",
      "No data returned for channel", "No video found for ID",
      "No thumbnail URL found for video" }

IsInvalidInput(o) ==
    o.kind = "raise" /\ o.exc = "ValueError" /\ o.msg \in InvalidInputMsgs

IsNotFound(o) ==
    o.kind = "raise" /\ o.exc = "ValueError" /\ o.msg \in NotFoundMsgs

(* requests raises Timeout from the call itself and HTTPError from         *)
(* raise_for_status(); both are the spec's UpstreamError.                  *)
IsUpstreamError(o) == o.kind = "raise" /\ o.exc \in {"HTTPError", "Timeout"}

-----------------------------------------------------------------------------
(* Bounds of the model.                                                    *)

MaxBody == 3

-----------------------------------------------------------------------------
(* _get: one API GET.  `resp' is what the upstream does with it.           *)

HttpStatuses == {"ok", "HTTPError", "Timeout"}

Call(kind, endpoint, params, resp) ==
    [ kind |-> kind, ep |-> endpoint, params |-> params,
      status |-> resp.status, body |-> resp.body ]

get(endpoint, params, resp) ==
    [ out  |-> IF resp.status = "ok" THEN Return(resp.body)
               ELSE Raise(resp.status, endpoint),
      call |-> Call("GET", endpoint, params, resp) ]

-----------------------------------------------------------------------------
(* resolve_channel_id                                                      *)

WordAtoms == {"channel", "U", "C"}

PathAtoms == {"/", "@", "-", ".", "!"} \cup WordAtoms

RECURSIVE rstrip(_)
rstrip(p) ==
    IF p # <<>> /\ p[Len(p)] = "/" THEN rstrip(SubSeq(p, 1, Len(p) - 1)) ELSE p

(* re.match(r"^/channel/(UC[\w-]+)$", path) *)
DirectMatchNoAnchor(p) ==
    /\ Len(p) >= 6
    /\ p[1] = "/" /\ p[2] = "channel" /\ p[3] = "/" /\ p[4] = "U" /\ p[5] = "C"
    /\ p[6] \in WordAtoms \cup {"-"}

DirectMatch(p) ==
    /\ Len(p) >= 6
    /\ p[1] = "/" /\ p[2] = "channel" /\ p[3] = "/" /\ p[4] = "U" /\ p[5] = "C"
    /\ \A i \in 6..Len(p) : p[i] \in WordAtoms \cup {"-"}

DirectGroup(p) == SubSeq(p, 4, Len(p))

(* re.match(r"^/@([\w.-]+)$", path) *)
HandleMatch(p) ==
    /\ Len(p) >= 3
    /\ p[1] = "/" /\ p[2] = "@"
    /\ \A i \in 3..Len(p) : p[i] \in WordAtoms \cup {".", "-"}

HandleGroup(p) == SubSeq(p, 3, Len(p))

(* The result of resolve_channel_id on a URL whose path is `url', when the *)
(* upstream answers the handle lookup (if one is made) with `resp'.        *)
resolve_channel_id(url, resp) ==
    LET path == rstrip(url) IN
    IF DirectMatch(path)
    THEN [out |-> Return(DirectGroup(path)), calls |-> <<>>]
    ELSE IF HandleMatch(path)
    THEN LET g == get("channels",
                      [part |-> "id", forHandle |-> HandleGroup(path)], resp)
         IN  [ out   |-> IF g.out.kind = "raise" THEN g.out
                         ELSE IF g.out.value = <<>>
                         THEN Raise("ValueError", "No channel found for handle")
                         ELSE Return(g.out.value[1].id),
               calls |-> <<g.call>> ]
    ELSE [ out   |-> Raise("ValueError", "Unsupported channel URL format"),
           calls |-> <<>> ]

-----------------------------------------------------------------------------
(* The upstream's answers.                                                 *)

ChannelIds == { <<"U", "C", "U">>, <<"U", "C", "-">> }

Failures == { [status |-> s, body |-> <<>>] : s \in HttpStatuses \ {"ok"} }

Ok(body) == [status |-> "ok", body |-> body]

(* channels?part=id&forHandle=... : zero, one or two items carrying an id  *)
HandleResponses ==
    Failures
      \cup { Ok(<<>>) }
      \cup { Ok(<<[id |-> c]>>) : c \in ChannelIds }
      \cup { Ok(<<[id |-> c], [id |-> d]>>) : c \in ChannelIds, d \in ChannelIds }

-----------------------------------------------------------------------------
(* Inputs: URL paths.                                                      *)

RECURSIVE SeqsUpTo(_, _)
SeqsUpTo(S, n) ==
    IF n = 0 THEN { <<>> }
    ELSE LET shorter == SeqsUpTo(S, n - 1)
         IN  shorter \cup { Append(s, x) : s \in shorter, x \in S }

PathHeads ==
    { <<>>, <<"/">>, <<"/", "channel", "/">>, <<"/", "@">>,
      <<"channel", "/">>, <<"/", "/", "@">>, <<"/", "channel", "/", "U", "C">>,
      <<"/", "channel", "/", "/", "U", "C">> }

PathTails == { <<>>, <<"/">>, <<"/", "/">> }

UrlPaths ==
    { h \o b \o t : h \in PathHeads,
                    b \in SeqsUpTo({"U", "C", "-", ".", "!"}, MaxBody),
                    t \in PathTails }

-----------------------------------------------------------------------------
(* Specification of resolve_channel_id alone.                              *)

InitResolve ==
    /\ tool = "resolve_channel_id"
    /\ args \in { [channel_url |-> u] : u \in UrlPaths }
    /\ pc = "start"
    /\ loc = <<>>
    /\ calls = <<>>
    /\ out = Running

Resolve ==
    /\ tool = "resolve_channel_id" /\ pc = "start"
    /\ \E resp \in HandleResponses :
         LET r == resolve_channel_id(args.channel_url, resp) IN
         /\ out' = r.out
         /\ calls' = calls \o r.calls
    /\ pc' = "done"
    /\ UNCHANGED <<tool, args, loc>>

NextResolve == Resolve

SpecResolve == InitResolve /\ [][NextResolve]_vars

-----------------------------------------------------------------------------
(* The two accepted URL shapes, as the specification words them.           *)

IdChars == {"channel", "U", "C", "-"}

HandleChars == {"channel", "U", "C", "-", "."}

IsDirectShape(p) ==
    \E n \in 1..Len(p) :
        /\ Len(p) = 5 + n
        /\ SubSeq(p, 1, 5) = <<"/", "channel", "/", "U", "C">>
        /\ \A i \in 6..Len(p) : p[i] \in IdChars

IsHandleShape(p) ==
    \E n \in 1..Len(p) :
        /\ Len(p) = 2 + n
        /\ SubSeq(p, 1, 2) = <<"/", "@">>
        /\ \A i \in 3..Len(p) : p[i] \in HandleChars

RECURSIVE DropTrailingSlashes(_)
DropTrailingSlashes(p) ==
    IF Len(p) > 0 /\ p[Len(p)] = "/"
    THEN DropTrailingSlashes([i \in 1..(Len(p) - 1) |-> p[i]])
    ELSE p

(* What resolve_channel_id owes for a path p of one of the three kinds.    *)
ResolveContractOn(p) ==
    IF IsDirectShape(p)
    THEN /\ out = Return(SubSeq(p, 4, Len(p)))
         /\ calls = <<>>
    ELSE IF IsHandleShape(p)
    THEN /\ Len(calls) = 1
         /\ calls[1].kind = "GET" /\ calls[1].ep = "channels"
         /\ calls[1].params.forHandle = SubSeq(p, 3, Len(p))
         /\ IF calls[1].status # "ok"
            THEN IsUpstreamError(out)
            ELSE IF calls[1].body = <<>>
            THEN IsNotFound(out)
            ELSE out = Return(calls[1].body[1].id)
    ELSE /\ IsInvalidInput(out)
         /\ calls = <<>>

(* C1 (as stated): resolve_channel_id returns the identifier of a path     *)
(* /channel/UC<chars> with no external call, makes exactly one channels    *)
(* lookup for a path /@<handle> and returns the first item's id or fails   *)
(* NotFound on zero items, and fails InvalidInput with no external call    *)
(* for every other URL (a lookup that itself fails is an UpstreamError).   *)
C1_AsStated ==
    (tool = "resolve_channel_id" /\ pc = "done")
        => ResolveContractOn(args.channel_url)

(* C1 (amended): the same three cases decided on the URL path with its     *)
(* trailing slashes removed: /channel/UC<chars>/ and /@<handle>/ resolve   *)
(* like the same path without the slash.                                   *)
C1_ResolveContract ==
    (tool = "resolve_channel_id" /\ pc = "done")
        => ResolveContractOn(DropTrailingSlashes(args.channel_url))

(* A handle URL with a trailing slash whose lookup answered with two items *)
(* has been resolved to the first of them.                                 *)
C1_Witness ==
    /\ tool = "resolve_channel_id" /\ pc = "done"
    /\ args.channel_url = <<"/", "@", "U", ".", "/">>
    /\ Len(calls) = 1 /\ Len(calls[1].body) = 2
    /\ calls[1].body[1].id # calls[1].body[2].id
    /\ out = Return(calls[1].body[1].id)

-----------------------------------------------------------------------------
(* Raw JSON values and the normalizing helpers.                            *)
(*                                                                         *)
(* A raw scalar of an API payload is absent (the key is missing), a        *)
(* number (an int or a decimal string, which int() accepts), or junk (a    *)
(* value int() rejects: None, "abc", "1.5").                               *)

Absent == [t |-> "absent", n |-> 0]

Junk == [t |-> "junk", n |-> 0]

Num(n) == [t |-> "num", n |-> n]

(* dict.get(key, default) *)
DictGet(v, default) == IF v.t = "absent" THEN default ELSE v

_safe_int(value) == IF value.t = "num" THEN value.n ELSE 0

(* A Python float is modelled as the exact rational num/den, and a rounded *)
(* float as the integer count of its last decimal: round(x, 4) = 12.3456   *)
(* is the integer 123456.                                                  *)
Rat(n, d) == [num |-> n, den |-> d]

RECURSIVE Pow10(_)
Pow10(k) == IF k = 0 THEN 1 ELSE 10 * Pow10(k - 1)

(* round() of n/d (d > 0) to an integer, ties to the even neighbour *)
RoundDiv(n, d) ==
    LET q == n \div d
        r == n % d
    IN  IF 2 * r < d THEN q
        ELSE IF 2 * r > d THEN q + 1
        ELSE IF q % 2 = 0 THEN q ELSE q + 1

RECURSIVE Gcd(_, _)
Gcd(a, b) == IF b = 0 THEN a ELSE Gcd(b, a % b)

(* round(float(value), decimals); the common factor of 10^decimals and the *)
(* denominator is cancelled before the multiplication, which leaves the    *)
(* quotient as it is and keeps the product small                           *)
_safe_float(value, decimals) ==
    LET g == Gcd(Pow10(decimals), value.den)
    IN  RoundDiv(value.num * (Pow10(decimals) \div g), value.den \div g)

RateDecimals == 4

(* (likes + comments) / views * 100 if views > 0 else 0 *)
EngagementLikesOnly(views, likes, comments) ==
    IF views > 0 THEN Rat(likes * 100, views) ELSE Rat(0, 1)

Engagement(views, likes, comments) ==
    IF views > 0 THEN Rat((likes + comments) * 100, views) ELSE Rat(0, 1)

(* _parse_duration: a duration string is a sequence of tokens, a token     *)
(* being a letter (k = "P", "T", "H", "M", "S", or "x" for any other       *)
(* character) or a maximal run of digits (k = "num", n its value).         *)
Tok(k) == [k |-> k, n |-> 0]

Digits(n) == [k |-> "num", n |-> n]

DurationComponent(toks, pos, letter) ==
    IF pos + 1 <= Len(toks) /\ toks[pos].k = "num" /\ toks[pos + 1].k = letter
    THEN [n |-> toks[pos].n, next |-> pos + 2]
    ELSE [n |-> 0, next |-> pos]

_parse_duration(iso_duration) ==
    IF Len(iso_duration) < 2 \/ iso_duration[1].k # "P" \/ iso_duration[2].k # "T"
    THEN 0
    ELSE LET h == DurationComponent(iso_duration, 3, "H")
             m == DurationComponent(iso_duration, h.next, "M")
             s == DurationComponent(iso_duration, m.next, "S")
         IN  h.n * 3600 + m.n * 60 + s.n

PT0S == <<Tok("P"), Tok("T"), Digits(0), Tok("S")>>

(* _thumbnail_url: `thumbnails' is the set of keys present in the dict;    *)
(* the URL stored under a key is written as the key itself, "" is no URL.  *)
Qualities == <<"maxres", "standard", "high", "medium", "default">>

_thumbnail_urlLastMatch(thumbnails) ==
    IF \E i \in 1..Len(Qualities) : Qualities[i] \in thumbnails
    THEN Qualities[CHOOSE i \in 1..Len(Qualities) :
                      /\ Qualities[i] \in thumbnails
                      /\ \A j \in (i + 1)..Len(Qualities) : Qualities[j] \notin thumbnails]
    ELSE ""

_thumbnail_url(thumbnails) ==
    IF \E i \in 1..Len(Qualities) : Qualities[i] \in thumbnails
    THEN Qualities[CHOOSE i \in 1..Len(Qualities) :
                      /\ Qualities[i] \in thumbnails
                      /\ \A j \in 1..(i - 1) : Qualities[j] \notin thumbnails]
    ELSE ""

-----------------------------------------------------------------------------
(* Raw video items of the videos endpoint.                                 *)

RawVideo(id, views, likes, comments, published) ==
    [ id |-> id, title |-> "t", description |-> "d", tags |-> <<>>,
      publishedAt |-> published, duration |-> PT0S,
      viewCount |-> views, likeCount |-> likes, commentCount |-> comments,
      thumbnails |-> {"high", "default"} ]

Range(f) == { f[i] : i \in DOMAIN f }

Min(a, b) == IF a < b THEN a ELSE b

(* Every sequence of items drawn from `raws' whose ids are pairwise        *)
(* distinct members of D: what a lookup by id may answer for the ids D.    *)
RECURSIVE ItemSeqs(_, _)
ItemSeqs(D, raws) ==
    { <<>> } \cup
    UNION { { <<r>> \o s : r \in { x \in raws : x.id = d },
                           s \in ItemSeqs(D \ {d}, raws) } : d \in D }

VideoLookupResponses(ids, raws) ==
    Failures \cup { Ok(s) : s \in ItemSeqs(Range(ids), raws) }

(* max(records, key=lambda v: v[key]): the first record with the largest   *)
(* value.                                                                  *)
MaxBy(records, key) ==
    records[CHOOSE i \in 1..Len(records) :
               /\ \A j \in 1..Len(records) : records[j][key] <= records[i][key]
               /\ \A j \in 1..(i - 1) : records[j][key] < records[i][key]]

(* `if not video_ids' / `if not channel_urls': the guard on the input list *)
NotListNever(xs) == FALSE

NotList(xs) == xs = <<>>

(* xs[:cap] *)
TruncateNone(xs, cap) == xs

Truncate(xs, cap) == SubSeq(xs, 1, Min(cap, Len(xs)))

-----------------------------------------------------------------------------
(* Tool 8: compare_videos                                                  *)

CompareVideosCap == 10

CompareVideoRecord(item) ==
    LET views    == _safe_int(DictGet(item.viewCount, Num(0)))
        likes    == _safe_int(DictGet(item.likeCount, Num(0)))
        comments == _safe_int(DictGet(item.commentCount, Num(0)))
    IN  [ video_id |-> item.id,
          title |-> item.title,
          published_at |-> item.publishedAt,
          duration_seconds |-> _parse_duration(item.duration),
          views |-> views,
          likes |-> likes,
          comments |-> comments,
          engagement_rate_pct |->
              _safe_float(Engagement(views, likes, comments), RateDecimals) ]

VideoWinner(videos, key) ==
    IF videos = <<>> THEN "" ELSE MaxBy(videos, key).video_id

compare_videos(video_ids, resp) ==
    IF NotList(video_ids)
    THEN [ out   |-> Raise("ValueError", "video_ids must not be empty."),
           calls |-> <<>> ]
    ELSE LET ids == Truncate(video_ids, CompareVideosCap)
             g   == get("videos",
                        [part |-> "snippet,contentDetails,statistics", id |-> ids],
                        resp)
             videos == [i \in 1..Len(g.out.value) |->
                           CompareVideoRecord(g.out.value[i])]
         IN  [ out |-> IF g.out.kind = "raise" THEN g.out
                       ELSE Return(
                         [ videos |-> videos,
                           winner_by_views |-> VideoWinner(videos, "views"),
                           winner_by_likes |-> VideoWinner(videos, "likes"),
                           winner_by_comments |-> VideoWinner(videos, "comments"),
                           winner_by_engagement_rate |->
                               VideoWinner(videos, "engagement_rate_pct") ]),
               calls |-> <<g.call>> ]

-----------------------------------------------------------------------------
(* Tool 1: get_channel_overview, and tool 10: compare_channels             *)

RawChannel(id, subscribers, views, videos) ==
    [ id |-> id, title |-> "t", description |-> "d", publishedAt |-> "p",
      subscriberCount |-> subscribers, viewCount |-> views,
      videoCount |-> videos, thumbnails |-> {"default"} ]

(* the dict get_channel_overview returns for the first item of the answer *)
ChannelRecord(channel_id, item) ==
    [ channel_id |-> channel_id,
      title |-> item.title,
      description |-> item.description,
      subscriber_count |-> _safe_int(DictGet(item.subscriberCount, Num(0))),
      total_views |-> _safe_int(DictGet(item.viewCount, Num(0))),
      total_videos |-> _safe_int(DictGet(item.videoCount, Num(0))),
      created_at |-> item.publishedAt,
      thumbnail_url |-> _thumbnail_url(item.thumbnails) ]

(* get_channel_overview(url): `r1' answers the handle lookup of the        *)
(* resolver (if it makes one), `r2' the channels lookup by id.             *)
get_channel_overview(channel_url, r1, r2) ==
    LET res == resolve_channel_id(channel_url, r1) IN
    IF res.out.kind = "raise" THEN res
    ELSE
      LET channel_id == res.out.value
          g == get("channels", [part |-> "snippet,statistics", id |-> channel_id], r2)
          item == g.out.value[1]
      IN  [ out |->
              IF g.out.kind = "raise" THEN g.out
              ELSE IF g.out.value = <<>>
              THEN Raise("ValueError", "No data returned for channel")
              ELSE Return(ChannelRecord(channel_id, item)),
            calls |-> res.calls \o <<g.call>> ]

CompareChannelsCap == 5

ChannelWinner(channels, key) ==
    IF channels = <<>> THEN "" ELSE MaxBy(channels, key).channel_id

CompareChannelsResult(channels) ==
    [ channels |-> channels,
      winner_by_subscribers |-> ChannelWinner(channels, "subscriber_count"),
      winner_by_total_views |-> ChannelWinner(channels, "total_views"),
      winner_by_video_count |-> ChannelWinner(channels, "total_videos") ]

-----------------------------------------------------------------------------
(* The compare tools as steps of an invocation.                            *)

MaxList == 2

VideoIds == {"a", "b"}

(* ten times "a" and then "b": one id more than compare_videos keeps *)
LongVideoList == [i \in 1..(CompareVideosCap + 1) |->
                     IF i <= CompareVideosCap THEN "a" ELSE "b"]

CompareRawVideos ==
    { RawVideo(id, v, l, c, "p") :
        id \in VideoIds,
        v \in {Absent, Num(0), Num(3), Num(3000000)},
        l \in {Num(0), Num(2)},
        c \in {Junk, Num(1)} }

DirectUrl(id) == <<"/", "channel", "/">> \o id

HandleUrl == <<"/", "@", "C", ".", "/">>

BadUrl == <<"/", "channel", "/", "U", "C", "!">>

CompareUrls == { DirectUrl(c) : c \in ChannelIds } \cup { HandleUrl, BadUrl }

(* five good URLs and then a bad one: one URL more than compare_channels   *)
(* keeps                                                                   *)
LongUrlList == [i \in 1..(CompareChannelsCap + 1) |->
                   IF i <= CompareChannelsCap
                   THEN DirectUrl(<<"U", "C", "U">>) ELSE BadUrl]

CompareRawChannels ==
    { RawChannel(id, s, v, Junk) :
        id \in ChannelIds, s \in {Num(0), Num(1)}, v \in {Absent, Num(1)} }

ResolveResponsesOne ==
    Failures \cup { Ok(<<>>) } \cup { Ok(<<[id |-> c]>>) : c \in ChannelIds }

(* channels?part=snippet,statistics&id=... answers with the channel asked  *)
(* for, or with nothing                                                    *)
OverviewResponses(url, r1) ==
    LET res == resolve_channel_id(url, r1) IN
    Failures \cup { Ok(<<>>) } \cup
    { Ok(<<c>>) : c \in { x \in CompareRawChannels :
                            res.out.kind = "return" /\ x.id = res.out.value } }

InitCompare ==
    /\ \/ /\ tool = "compare_videos"
          /\ args \in { [video_ids |-> l] :
                          l \in SeqsUpTo(VideoIds, MaxList) \cup {LongVideoList} }
       \/ /\ tool = "compare_channels"
          /\ args \in { [channel_urls |-> l] :
                          l \in SeqsUpTo(CompareUrls, MaxList) \cup {LongUrlList} }
    /\ pc = "start"
    /\ loc = <<>>
    /\ calls = <<>>
    /\ out = Running

CompareVideos ==
    /\ tool = "compare_videos" /\ pc = "start"
    /\ \E resp \in VideoLookupResponses(
                     Truncate(args.video_ids, CompareVideosCap), CompareRawVideos) :
         LET r == compare_videos(args.video_ids, resp) IN
         /\ out' = r.out
         /\ calls' = calls \o r.calls
    /\ pc' = "done"
    /\ UNCHANGED <<tool, args, loc>>

(* compare_channels up to its list comprehension *)
CompareChannelsEnter ==
    /\ tool = "compare_channels" /\ pc = "start"
    /\ IF NotList(args.channel_urls)
       THEN /\ out' = Raise("ValueError", "channel_urls must not be empty.")
            /\ pc' = "done"
            /\ loc' = loc
       ELSE /\ loc' = [ channel_urls |-> Truncate(args.channel_urls, CompareChannelsCap),
                        channels |-> <<>> ]
            /\ IF Truncate(args.channel_urls, CompareChannelsCap) = <<>>
               THEN /\ out' = Return(CompareChannelsResult(<<>>))
                    /\ pc' = "done"
               ELSE /\ out' = out
                    /\ pc' = "overview"
    /\ UNCHANGED <<tool, args, calls>>

(* one get_channel_overview(url) of the list comprehension; after the last *)
(* one, the winners and the return                                         *)
CompareChannelsOverview ==
    /\ tool = "compare_channels" /\ pc = "overview"
    /\ LET url == loc.channel_urls[Len(loc.channels) + 1] IN
       \E r1 \in ResolveResponsesOne :
       \E r2 \in OverviewResponses(url, r1) :
         LET r == get_channel_overview(url, r1, r2)
             channels == Append(loc.channels, r.out.value)
         IN  /\ calls' = calls \o r.calls
             /\ IF r.out.kind = "raise"
                THEN /\ out' = r.out
                     /\ pc' = "done"
                     /\ loc' = loc
                ELSE /\ loc' = [loc EXCEPT !.channels = channels]
                     /\ IF Len(channels) = Len(loc.channel_urls)
                        THEN /\ out' = Return(CompareChannelsResult(channels))
                             /\ pc' = "done"
                        ELSE /\ out' = out
                             /\ pc' = "overview"
    /\ UNCHANGED <<tool, args>>

NextCompare == CompareVideos \/ CompareChannelsEnter \/ CompareChannelsOverview

SpecCompare == InitCompare /\ [][NextCompare]_vars

-----------------------------------------------------------------------------
(* Claims about the compare tools.                                         *)

CompareDone == tool \in {"compare_videos", "compare_channels"} /\ pc = "done"

CompareInput ==
    IF tool = "compare_videos" THEN args.video_ids ELSE args.channel_urls

UnsupportedShape(url) ==
    LET p == DropTrailingSlashes(url)
    IN  ~IsDirectShape(p) /\ ~IsHandleShape(p)

FirstN(xs, n) == [i \in 1..(IF Len(xs) < n THEN Len(xs) ELSE n) |-> xs[i]]

(* C2 (as stated): compare_videos and compare_channels end in InvalidInput *)
(* if and only if the input list is empty.                                 *)
C2_AsStated ==
    CompareDone => (IsInvalidInput(out) <=> CompareInput = <<>>)

(* C2 (amended): both fail with InvalidInput on an empty list, before any  *)
(* external call; compare_videos never ends in InvalidInput on a non-empty *)
(* list; compare_channels on a non-empty list ends in InvalidInput exactly *)
(* when the URL it stopped at, one of its first five, has neither accepted *)
(* shape, and never when its first five URLs all have an accepted shape.   *)
C2_InvalidInputIff ==
    CompareDone =>
      IF CompareInput = <<>>
      THEN IsInvalidInput(out) /\ calls = <<>>
      ELSE IF tool = "compare_videos"
      THEN ~IsInvalidInput(out)
      ELSE LET urls == FirstN(args.channel_urls, 5)
               at   == Len(loc.channels) + 1
           IN  /\ IsInvalidInput(out) <=>
                    (out.kind = "raise" /\ at <= Len(urls) /\ UnsupportedShape(urls[at]))
               /\ (\A i \in 1..Len(urls) : ~UnsupportedShape(urls[i]))
                    => ~IsInvalidInput(out)
               /\ UnsupportedShape(urls[1]) => IsInvalidInput(out)

(* compare_channels has failed with InvalidInput on a two-element list     *)
(* whose second URL is malformed, after the overview of the first.         *)
C2_Witness ==
    /\ tool = "compare_channels" /\ pc = "done"
    /\ Len(args.channel_urls) = 2
    /\ args.channel_urls[2] = BadUrl
    /\ Len(loc.channels) = 1
    /\ IsInvalidInput(out)

WinnersOfVideos ==
    { out.value.winner_by_views, out.value.winner_by_likes,
      out.value.winner_by_comments, out.value.winner_by_engagement_rate }

WinnersOfChannels ==
    { out.value.winner_by_subscribers, out.value.winner_by_total_views,
      out.value.winner_by_video_count }

(* The channel ids the URLs `urls' stand for: the id written in a direct   *)
(* URL, and the first id a handle lookup of this invocation answered for   *)
(* the handle of a handle URL.                                             *)
ChannelIdsOf(urls) ==
    LET paths == { DropTrailingSlashes(urls[i]) : i \in 1..Len(urls) }
    IN  { SubSeq(p, 4, Len(p)) : p \in { q \in paths : IsDirectShape(q) } }
        \cup
        { calls[k].body[1].id :
            k \in { j \in 1..Len(calls) :
                      /\ "forHandle" \in DOMAIN calls[j].params
                      /\ calls[j].status = "ok" /\ calls[j].body # <<>>
                      /\ \E q \in paths :
                           IsHandleShape(q)
                             /\ calls[j].params.forHandle = SubSeq(q, 3, Len(q)) } }

(* C3 (as stated): on a non-empty input list for which a result is         *)
(* returned, every winner field is an id present in the input list.        *)
C3_AsStated ==
    (CompareDone /\ out.kind = "return" /\ CompareInput # <<>>) =>
      IF tool = "compare_videos"
      THEN WinnersOfVideos \subseteq Range(args.video_ids)
      ELSE WinnersOfChannels \subseteq ChannelIdsOf(args.channel_urls)

(* C3 (amended): the winner fields of compare_videos are all the empty     *)
(* string when the lookup returned no record, and otherwise ids among the  *)
(* first ten of the input list; the winner fields of compare_channels are  *)
(* channel ids of the first five input URLs.                               *)
C3_WinnersFromInput ==
    (CompareDone /\ out.kind = "return" /\ CompareInput # <<>>) =>
      IF tool = "compare_videos"
      THEN IF calls[1].body = <<>>
           THEN WinnersOfVideos = {""}
           ELSE /\ WinnersOfVideos \subseteq Range(FirstN(args.video_ids, 10))
                /\ WinnersOfVideos \subseteq
                     { calls[1].body[i].id : i \in 1..Len(calls[1].body) }
      ELSE WinnersOfChannels \subseteq ChannelIdsOf(FirstN(args.channel_urls, 5))

(* compare_videos has returned two records whose winner by views and       *)
(* winner by likes differ, both taken from the input.                      *)
C3_Witness ==
    /\ tool = "compare_videos" /\ pc = "done" /\ out.kind = "return"
    /\ Len(out.value.videos) = 2
    /\ out.value.winner_by_views # out.value.winner_by_likes
    /\ out.value.winner_by_views = args.video_ids[2]

-----------------------------------------------------------------------------
(* _get_uploads_playlist_id and _fetch_videos_for_channel                  *)
(*                                                                         *)
(* The source pages and batches by 50.  The model keeps the two places of  *)
(* that number apart and scales them down, so that several pages and       *)
(* several batches occur within the bounds.                                *)

PageCap == 2

BatchCap == 2

MaxLimit == 3

MaxPages == 3

None == ""

_get_uploads_playlist_id(channel_id, resp) ==
    LET g == get("channels", [part |-> "contentDetails", id |-> channel_id], resp)
    IN  [ out |-> IF g.out.kind = "raise" THEN g.out
                  ELSE IF g.out.value = <<>>
                  THEN Raise("ValueError", "Channel not found")
                  ELSE Return(g.out.value[1].uploads),
          calls |-> <<g.call>> ]

(* a page request that always asks for a full page *)
PageSizeCapOnly(cap, limit, collected) == cap

(* batch_size = min(50, limit - len(video_ids));                           *)
(* batch_size = min(100, limit - len(comments))                            *)
PageSize(cap, limit, collected) == Min(cap, limit - collected)

(* the params of one playlistItems request *)
PageParams(playlist, batch_size, next_page_token) ==
    [ part |-> "contentDetails", playlistId |-> playlist,
      maxResults |-> batch_size, pageToken |-> next_page_token ]

(* for item in data.get("items", []): vid_id = ...get("videoId");          *)
(* if vid_id: video_ids.append(vid_id)                                     *)
RECURSIVE CollectIds(_, _)
CollectIds(video_ids, items) ==
    IF items = <<>> THEN video_ids
    ELSE CollectIds(IF Head(items) # None THEN Append(video_ids, Head(items))
                    ELSE video_ids,
                    Tail(items))

(* the record built from one item of a batched videos lookup *)
VideoRecord(item) ==
    [ video_id |-> item.id,
      title |-> item.title,
      description |-> item.description,
      tags |-> item.tags,
      published_at |-> item.publishedAt,
      duration_seconds |-> _parse_duration(item.duration),
      views |-> _safe_int(DictGet(item.viewCount, Num(0))),
      likes |-> _safe_int(DictGet(item.likeCount, Num(0))),
      comments |-> _safe_int(DictGet(item.commentCount, Num(0))),
      thumbnail_url |-> _thumbnail_url(item.thumbnails) ]

NormalizeAll(items) == [i \in 1..Len(items) |-> VideoRecord(items[i])]

(* videos = videos + [record of each item], in the order of the answer *)
ExtendPrepending(videos, items) == NormalizeAll(items) \o videos

Extend(videos, items) == videos \o NormalizeAll(items)

(* video_ids[i:i + 50] *)
BatchOverlapping(video_ids, i) ==
    SubSeq(video_ids, IF i = 0 THEN 1 ELSE i, Min(i + BatchCap, Len(video_ids)))

Batch(video_ids, i) == SubSeq(video_ids, i + 1, Min(i + BatchCap, Len(video_ids)))

(* what follows the while loop: `if not video_ids: return []', else on to  *)
(* the batch loop, which then has at least one iteration                   *)
AfterPagesRaising(video_ids) ==
    IF video_ids = <<>>
    THEN [out |-> Raise("ValueError", "No videos found for this channel."),
          pc |-> "done"]
    ELSE [out |-> Running, pc |-> "batch"]

AfterPages(video_ids) ==
    IF video_ids = <<>>
    THEN [out |-> Return(<<>>), pc |-> "done"]
    ELSE [out |-> Running, pc |-> "batch"]

-----------------------------------------------------------------------------
(* The upstream of _fetch_videos_for_channel.                              *)

FetchChannel == <<"U", "C", "U">>

FetchUrls == { DirectUrl(FetchChannel), BadUrl }

UploadsResponses ==
    Failures \cup { Ok(<<>>), Ok(<<[uploads |-> "UU"]>>) }

(* the videos of the channel; the uploads playlist lists each at most once *)
FetchIds == {"a", "b", "c"}

(* every sequence of at most n of the ids R, none of them twice *)
RECURSIVE IdSeqs(_, _)
IdSeqs(R, n) ==
    IF n = 0 THEN { <<>> }
    ELSE { <<>> } \cup
         UNION { { <<d>> \o s : s \in IdSeqs(R \ {d}, n - 1) } : d \in R }

(* a page of the uploads playlist after the ids `collected' were served:   *)
(* at most PageCap entries (possibly more than asked for), the first of    *)
(* which may carry no video id, and a next-page token or none              *)
PageResponses(collected) ==
    LET R == FetchIds \ Range(collected) IN
    Failures \cup
    { Ok([items |-> i, nextPageToken |-> t]) :
        i \in IdSeqs(R, PageCap)
                 \cup { <<None>> \o s : s \in IdSeqs(R, PageCap - 1) },
        t \in {None, "tok"} }

FetchRawVideos == { RawVideo(id, Num(1), Num(0), Num(0), "p") : id \in FetchIds }

-----------------------------------------------------------------------------
(* _fetch_videos_for_channel as steps: one external call per step.         *)

InitFetch ==
    /\ tool = "_fetch_videos_for_channel"
    /\ args \in { [channel_url |-> u, limit |-> l] :
                    u \in FetchUrls, l \in 0..MaxLimit }
    /\ pc = "start"
    /\ loc = <<>>
    /\ calls = <<>>
    /\ out = Running

(* channel_id = resolve_channel_id(channel_url) *)
FetchResolve ==
    /\ tool = "_fetch_videos_for_channel" /\ pc = "start"
    /\ \E resp \in ResolveResponsesOne :
         LET r == resolve_channel_id(args.channel_url, resp) IN
         /\ calls' = calls \o r.calls
         /\ IF r.out.kind = "raise"
            THEN out' = r.out /\ pc' = "done" /\ loc' = loc
            ELSE out' = out /\ pc' = "uploads"
                 /\ loc' = [channel_id |-> r.out.value]
    /\ UNCHANGED <<tool, args>>

(* uploads_playlist_id = _get_uploads_playlist_id(channel_id), the two     *)
(* accumulators, and the first test of the while loop                      *)
FetchUploads ==
    /\ tool = "_fetch_videos_for_channel" /\ pc = "uploads"
    /\ \E resp \in UploadsResponses :
         LET r == _get_uploads_playlist_id(loc.channel_id, resp) IN
         /\ calls' = calls \o r.calls
         /\ IF r.out.kind = "raise"
            THEN out' = r.out /\ pc' = "done" /\ loc' = loc
            ELSE /\ loc' = [ channel_id |-> loc.channel_id,
                             uploads_playlist_id |-> r.out.value,
                             video_ids |-> <<>>,
                             next_page_token |-> None,
                             i |-> 0,
                             videos |-> <<>> ]
                 /\ IF 0 < args.limit
                    THEN out' = out /\ pc' = "page"
                    ELSE out' = AfterPages(<<>>).out /\ pc' = AfterPages(<<>>).pc
    /\ UNCHANGED <<tool, args>>

PagesSoFar == Cardinality({ k \in 1..Len(calls) : calls[k].ep = "playlistItems" })

(* one iteration of the while loop, and what follows the loop when it ends *)
FetchPage ==
    /\ tool = "_fetch_videos_for_channel" /\ pc = "page"
    /\ PagesSoFar < MaxPages
    /\ \E resp \in PageResponses(loc.video_ids) :
         LET batch_size == PageSize(PageCap, args.limit, Len(loc.video_ids))
             g == get("playlistItems",
                      PageParams(loc.uploads_playlist_id, batch_size,
                                 loc.next_page_token),
                      resp)
             video_ids == CollectIds(loc.video_ids, g.out.value.items)
             next_page_token == g.out.value.nextPageToken
         IN  /\ calls' = Append(calls, g.call)
             /\ IF g.out.kind = "raise"
                THEN out' = g.out /\ pc' = "done" /\ loc' = loc
                ELSE /\ loc' = [loc EXCEPT !.video_ids = video_ids,
                                           !.next_page_token = next_page_token]
                     /\ IF next_page_token = None \/ Len(video_ids) >= args.limit
                        THEN /\ out' = AfterPages(video_ids).out
                             /\ pc' = AfterPages(video_ids).pc
                        ELSE out' = out /\ pc' = "page"
    /\ UNCHANGED <<tool, args>>

(* one iteration of the batch loop, and the return after the last one *)
FetchBatch ==
    /\ tool = "_fetch_videos_for_channel" /\ pc = "batch"
    /\ LET batch == Batch(loc.video_ids, loc.i) IN
       \E resp \in VideoLookupResponses(batch, FetchRawVideos) :
         LET g == get("videos",
                      [part |-> "snippet,contentDetails,statistics", id |-> batch],
                      resp)
             videos == Extend(loc.videos, g.out.value)
         IN  /\ calls' = Append(calls, g.call)
             /\ IF g.out.kind = "raise"
                THEN out' = g.out /\ pc' = "done" /\ loc' = loc
                ELSE /\ loc' = [loc EXCEPT !.videos = videos, !.i = loc.i + BatchCap]
                     /\ IF loc.i + BatchCap >= Len(loc.video_ids)
                        THEN out' = Return(videos) /\ pc' = "done"
                        ELSE out' = out /\ pc' = "batch"
    /\ UNCHANGED <<tool, args>>

NextFetch == FetchResolve \/ FetchUploads \/ FetchPage \/ FetchBatch

SpecFetch == InitFetch /\ [][NextFetch]_vars

-----------------------------------------------------------------------------
(* Claims about _fetch_videos_for_channel.                                 *)

FetchReturned ==
    tool = "_fetch_videos_for_channel" /\ pc = "done" /\ out.kind = "return"

IdsOf(records) == [i \in 1..Len(records) |-> records[i].video_id]

AnswerIds(call) == [i \in 1..Len(call.body) |-> call.body[i].id]

(* the batched videos lookups of this invocation, in the order issued *)
LookupCalls == SelectSeq(calls, LAMBDA c : c.ep = "videos")

RECURSIVE Flatten(_)
Flatten(ss) == IF ss = <<>> THEN <<>> ELSE Head(ss) \o Flatten(Tail(ss))

RECURSIVE IsSubsequence(_, _)
IsSubsequence(s, t) ==
    IF s = <<>> THEN TRUE
    ELSE IF t = <<>> THEN FALSE
    ELSE IF Head(s) = Head(t) THEN IsSubsequence(Tail(s), Tail(t))
    ELSE IsSubsequence(s, Tail(t))

Restricted(ids, keep) == SelectSeq(ids, LAMBDA x : x \in keep)

NoRepeat(ids) == \A i, j \in 1..Len(ids) : ids[i] = ids[j] => i = j

PagingEndedEmpty ==
    /\ tool = "_fetch_videos_for_channel" /\ pc = "done"
    /\ "video_ids" \in DOMAIN loc
    /\ loc.video_ids = <<>>
    /\ \A k \in 1..Len(calls) : calls[k].status = "ok"

(* C9: when the uploads container yields zero video identifiers,           *)
(* _fetch_videos_for_channel returns the empty sequence, does not fail,    *)
(* and issues no batched videos lookup.                                    *)
C9_EmptyUploads ==
    /\ PagingEndedEmpty => (out = Return(<<>>) /\ LookupCalls = <<>>)
    /\ (tool = "_fetch_videos_for_channel" /\ LookupCalls # <<>>)
         => loc.video_ids # <<>>

(* Two pages were read, none of which carried a video identifier, and the  *)
(* function has returned the empty sequence.                               *)
C9_Witness ==
    /\ PagingEndedEmpty
    /\ PagesSoFar = 2
    /\ calls[Len(calls)].body.items = <<None>>
    /\ out = Return(<<>>)

-----------------------------------------------------------------------------
(* The channel analytics.  Each of them starts with                        *)
(* _fetch_videos_for_channel, whose steps are modelled above; here its     *)
(* outcome (the exception it raised, or the records it returned) is an     *)
(* input of the step, so that the statistics of the records can vary.      *)

MaxVideos == 2

FetchFailures ==
    { Raise("ValueError", "Unsupported channel URL format"),
      Raise("ValueError", "No channel found for handle"),
      Raise("ValueError", "Channel not found"),
      Raise("HTTPError", "videos"), Raise("Timeout", "playlistItems") }

(* what _fetch_videos_for_channel may end with when the upstream holds the *)
(* raw items `raws': at most n records, of distinct videos                 *)
FetchOutcomes(raws, n) ==
    FetchFailures \cup
    { Return(NormalizeAll(items)) :
        items \in { s \in ItemSeqs(FetchIds, raws) : Len(s) <= n } }

(* sorted(records, key=lambda v: v[key], reverse=True): descending, and    *)
(* records of equal key stay in their order                                *)
RECURSIVE SortedAscending(_, _)
SortedAscending(records, key) ==
    IF records = <<>> THEN <<>>
    ELSE LET n    == Len(records)
             rest == SortedAscending(SubSeq(records, 1, n - 1), key)
             x    == records[n]
             p    == Cardinality({ i \in 1..Len(rest) : rest[i][key] <= x[key] })
         IN  SubSeq(rest, 1, p) \o <<x>> \o SubSeq(rest, p + 1, Len(rest))

RECURSIVE SortedReverse(_, _)
SortedReverse(records, key) ==
    IF records = <<>> THEN <<>>
    ELSE LET n    == Len(records)
             rest == SortedReverse(SubSeq(records, 1, n - 1), key)
             x    == records[n]
             p    == Cardinality({ i \in 1..Len(rest) : rest[i][key] >= x[key] })
         IN  SubSeq(rest, 1, p) \o <<x>> \o SubSeq(rest, p + 1, Len(rest))

(* xs[:limit], for a limit of either sign *)
SliceTo(xs, limit) ==
    IF limit >= 0 THEN SubSeq(xs, 1, Min(limit, Len(xs)))
    ELSE SubSeq(xs, 1, IF Len(xs) + limit > 0 THEN Len(xs) + limit ELSE 0)

-----------------------------------------------------------------------------
(* Tool 11: get_top_videos                                                 *)

valid_metrics == {"views", "likes", "comments", "engagement_rate"}

(* v["engagement_rate_pct"] = ...: the record of the fetched list with the *)
(* field set                                                               *)
WithEngagement(v) ==
    [ video_id |-> v.video_id, title |-> v.title, description |-> v.description,
      tags |-> v.tags, published_at |-> v.published_at,
      duration_seconds |-> v.duration_seconds,
      views |-> v.views, likes |-> v.likes, comments |-> v.comments,
      thumbnail_url |-> v.thumbnail_url,
      engagement_rate_pct |->
          _safe_float(Engagement(v.views, v.likes, v.comments), RateDecimals) ]

Ranked(v, rank) ==
    [ rank |-> rank, video_id |-> v.video_id, title |-> v.title,
      published_at |-> v.published_at, duration_seconds |-> v.duration_seconds,
      views |-> v.views, likes |-> v.likes, comments |-> v.comments,
      engagement_rate_pct |-> v.engagement_rate_pct ]

(* get_top_videos after the fetch: `videos' is the fetched list *)
TopVideos(videos, metric, limit) ==
    LET enriched == [i \in 1..Len(videos) |-> WithEngagement(videos[i])]
        sort_key == IF metric = "engagement_rate" THEN "engagement_rate_pct"
                    ELSE metric
        sorted_videos == SliceTo(SortedReverse(enriched, sort_key), limit)
    IN  [ videos |-> enriched,
          result |-> [idx \in 1..Len(sorted_videos) |->
                         Ranked(sorted_videos[idx], idx)] ]

-----------------------------------------------------------------------------
(* Tool 15: get_engagement_stats                                           *)

RECURSIVE Sum(_, _)
Sum(records, key) ==
    IF records = <<>> THEN 0 ELSE Head(records)[key] + Sum(Tail(records), key)

Enriched(v) ==
    [ video_id |-> v.video_id, title |-> v.title,
      views |-> v.views, likes |-> v.likes, comments |-> v.comments,
      like_rate_pct |-> _safe_float(Engagement(v.views, v.likes, 0), RateDecimals),
      comment_rate_pct |->
          _safe_float(Engagement(v.views, 0, v.comments), RateDecimals),
      engagement_rate_pct |->
          _safe_float(Engagement(v.views, v.likes, v.comments), RateDecimals) ]

(* the mean of rounded rates, itself rounded to 4 decimals *)
MeanRate(records, key) ==
    _safe_float(Rat(Sum(records, key), Len(records) * Pow10(RateDecimals)),
                RateDecimals)

EngagementStats(videos) ==
    LET enriched == [i \in 1..Len(videos) |-> Enriched(videos[i])]
        n   == Len(enriched)
        top == MaxBy(enriched, "engagement_rate_pct")
    IN  [ total_videos_analyzed |-> n,
          avg_views |-> _safe_float(Rat(Sum(enriched, "views"), n), 0),
          avg_likes |-> _safe_float(Rat(Sum(enriched, "likes"), n), 0),
          avg_comments |-> _safe_float(Rat(Sum(enriched, "comments"), n), 0),
          avg_like_rate_pct |-> MeanRate(enriched, "like_rate_pct"),
          avg_comment_rate_pct |-> MeanRate(enriched, "comment_rate_pct"),
          avg_engagement_rate_pct |-> MeanRate(enriched, "engagement_rate_pct"),
          top_engaging_video |->
              [ video_id |-> top.video_id, title |-> top.title,
                engagement_rate_pct |-> top.engagement_rate_pct ],
          videos |-> enriched ]

-----------------------------------------------------------------------------
(* The tools that compute engagement rates, as steps of an invocation.     *)

StatsRawVideos ==
    { RawVideo(id, v, l, c, "p") :
        id \in FetchIds,
        v \in {Num(0), Num(3)}, l \in {Num(0), Num(2)}, c \in {Junk, Num(1)} }

InitVideos ==
    /\ \/ /\ tool = "compare_videos"
          /\ args \in { [video_ids |-> l] : l \in SeqsUpTo(VideoIds, MaxList) }
       \/ /\ tool = "get_top_videos"
          /\ args \in { [channel_url |-> DirectUrl(FetchChannel),
                         metric |-> m, limit |-> l] :
                          m \in valid_metrics \cup {"shares"},
                          l \in (-1)..(MaxVideos + 1) }
       \/ /\ tool = "get_engagement_stats"
          /\ args \in { [channel_url |-> DirectUrl(FetchChannel), limit |-> l] :
                          l \in {MaxVideos} }
    /\ pc = "start"
    /\ loc = <<>>
    /\ calls = <<>>
    /\ out = Running

GetTopVideos ==
    /\ tool = "get_top_videos" /\ pc = "start"
    /\ IF args.metric \notin valid_metrics
       THEN /\ out' = Raise("ValueError", "metric must be one of")
            /\ loc' = loc
       ELSE \E fetched \in FetchOutcomes(StatsRawVideos, MaxVideos) :
              IF fetched.kind = "raise"
              THEN out' = fetched /\ loc' = loc
              ELSE LET r == TopVideos(fetched.value, args.metric, args.limit)
                   IN  /\ loc' = [fetched |-> fetched.value, videos |-> r.videos]
                       /\ out' = Return(r.result)
    /\ pc' = "done"
    /\ UNCHANGED <<tool, args, calls>>

GetEngagementStats ==
    /\ tool = "get_engagement_stats" /\ pc = "start"
    /\ \E fetched \in FetchOutcomes(StatsRawVideos, MaxVideos) :
         IF fetched.kind = "raise"
         THEN out' = fetched /\ loc' = loc
         ELSE /\ loc' = [fetched |-> fetched.value, videos |-> fetched.value]
              /\ out' = IF fetched.value = <<>>
                        THEN Raise("ValueError", "No videos found for this channel.")
                        ELSE Return(EngagementStats(fetched.value))
    /\ pc' = "done"
    /\ UNCHANGED <<tool, args, calls>>

NextVideos == CompareVideos \/ GetTopVideos \/ GetEngagementStats

SpecVideos == InitVideos /\ [][NextVideos]_vars

-----------------------------------------------------------------------------
(* The claims about ranking and engagement rates.                          *)

(* (likes + comments) / views * 100 in units of 0.0001, stated as the      *)
(* nearest integer k to the exact quotient (the even one of two nearest)   *)
NearestRate(views, likes, comments) ==
    LET target == (likes + comments) * 100 * 10000
        low    == target \div views
        Dist(k) == IF k * views >= target THEN k * views - target
                   ELSE target - k * views
    IN  CHOOSE k \in {low, low + 1} :
            \/ 2 * Dist(k) < views
            \/ 2 * Dist(k) = views /\ k % 2 = 0

TopDone == tool = "get_top_videos" /\ pc = "done" /\ out.kind = "return"

MetricField == IF args.metric = "engagement_rate" THEN "engagement_rate_pct"
               ELSE args.metric

(* C4: for every valid metric and every limit, the list get_top_videos     *)
(* returns is in non-increasing order of the chosen metric (the engagement *)
(* rate being the one computed from the record's own views, likes and      *)
(* comments), and the rank of the record at position i is i.               *)
C4_SortedAndRanked ==
    TopDone =>
        LET r == out.value
        IN  \A i \in 1..Len(r) :
              /\ r[i].rank = i
              /\ r[i].engagement_rate_pct =
                     IF r[i].views > 0
                     THEN NearestRate(r[i].views, r[i].likes, r[i].comments)
                     ELSE 0
              /\ \A j \in (i + 1)..Len(r) : r[i][MetricField] >= r[j][MetricField]

(* a ranking by engagement rate that had to reverse the fetched order *)
C4_Witness ==
    /\ TopDone
    /\ args.metric = "engagement_rate"
    /\ Len(out.value) = 2
    /\ out.value[1].engagement_rate_pct > out.value[2].engagement_rate_pct
    /\ out.value[1].video_id = loc.fetched[2].video_id
    /\ out.value[2].video_id = loc.fetched[1].video_id

(* the records a finished tool reports an engagement rate for *)
RatedRecords ==
    IF pc # "done" \/ out.kind # "return" THEN <<>>
    ELSE IF tool = "get_top_videos" THEN out.value
    ELSE IF tool \in {"compare_videos", "get_engagement_stats"}
         THEN out.value.videos
    ELSE <<>>

(* C5 as the specification words it: the rate is 0 exactly when views = 0, *)
(* and otherwise the rounded quotient.                                     *)
C5_AsStated ==
    \A i \in 1..Len(RatedRecords) :
        LET v == RatedRecords[i]
        IN  /\ (v.engagement_rate_pct = 0) <=> (v.views = 0)
            /\ v.views # 0 =>
                 v.engagement_rate_pct = NearestRate(v.views, v.likes, v.comments)

(* C5: in compare_videos, get_top_videos and get_engagement_stats the      *)
(* engagement rate of a record is 0 when its views are 0, and otherwise    *)
(* (likes + comments) / views * 100 rounded to 4 decimals, which is 0 as   *)
(* well when the record has no likes and no comments or when the quotient  *)
(* is below 0.00005.                                                       *)
C5_EngagementRate ==
    \A i \in 1..Len(RatedRecords) :
        LET v == RatedRecords[i]
        IN  /\ v.views >= 0
            /\ v.views = 0 => v.engagement_rate_pct = 0
            /\ v.views > 0 =>
                 v.engagement_rate_pct = NearestRate(v.views, v.likes, v.comments)
            /\ (v.engagement_rate_pct = 0) <=>
                 \/ v.views = 0
                 \/ (v.likes + v.comments) * 2000000 <= v.views

(* engagement statistics over a video without views and a video whose     *)
(* three views brought two likes and a comment                             *)
C5_Witness ==
    /\ tool = "get_engagement_stats" /\ pc = "done" /\ out.kind = "return"
    /\ \E i, j \in 1..Len(out.value.videos) :
         /\ out.value.videos[i].views = 0
         /\ out.value.videos[i].likes = 2
         /\ out.value.videos[i].engagement_rate_pct = 0
         /\ out.value.videos[j].views = 3
         /\ out.value.videos[j].likes + out.value.videos[j].comments = 3
         /\ out.value.videos[j].engagement_rate_pct = 1000000

-----------------------------------------------------------------------------
(* Tool 12: get_upload_schedule                                            *)

(* A publishedAt string is either an ISO 8601 instant "<date>T<hh>:00:00Z" *)
(* (date counted in days from a Monday, hh the UTC hour), the same without *)
(* the Z or any offset ("<date>T<hh>:00:00"), or a text that               *)
(* datetime.fromisoformat rejects, the "" of a missing field included.     *)
IsoString(day, hour) == [iso |-> TRUE, day |-> day, hour |-> hour, offset |-> TRUE]

NaiveString(day, hour) ==
    [iso |-> TRUE, day |-> day, hour |-> hour, offset |-> FALSE]

NoDate == [iso |-> FALSE, day |-> 0, hour |-> 0, offset |-> FALSE]

fromisoformatLenient(s) ==
    [ok |-> TRUE, day |-> s.day, hour |-> s.hour, t |-> s.day * 24 + s.hour,
     aware |-> s.offset]

(* datetime.fromisoformat(s.replace("Z", "+00:00")); t is the instant in   *)
(* hours, the order sorted() arranges datetimes in; a string without       *)
(* offset gives a naive datetime, one with the Z an aware one              *)
fromisoformat(s) ==
    IF s.iso THEN [ok |-> TRUE, day |-> s.day, hour |-> s.hour,
                   t |-> s.day * 24 + s.hour, aware |-> s.offset]
    ELSE [ok |-> FALSE, day |-> 0, hour |-> 0, t |-> 0, aware |-> FALSE]

day_names == << "Monday", "Tuesday", "Wednesday", "Thursday", "Friday",
                "Saturday", "Sunday" >>

(* dt.weekday(): 0 for Monday *)
weekday(dt) == dt.day % 7

(* A Counter is the sequence of its [key, n] entries in insertion order.   *)
CounterAdd(counter, key) ==
    IF \E i \in 1..Len(counter) : counter[i].key = key
    THEN [i \in 1..Len(counter) |->
             IF counter[i].key = key
             THEN [key |-> key, n |-> counter[i].n + 1] ELSE counter[i]]
    ELSE Append(counter, [key |-> key, n |-> 1])

(* counter.most_common(1)[0][0]: the first entry of the largest count *)
most_common(counter) == MaxBy(counter, "n").key

(* the loop over the videos: the counters and the parsed timestamps *)
RECURSIVE Tally(_)
Tally(videos) ==
    IF videos = <<>>
    THEN [posts_by_day |-> <<>>, posts_by_hour |-> <<>>, timestamps |-> <<>>]
    ELSE LET n    == Len(videos)
             sofar == Tally(SubSeq(videos, 1, n - 1))
             dt   == fromisoformat(videos[n].published_at)
         IN  IF ~dt.ok THEN sofar
             ELSE [ posts_by_day |->
                        CounterAdd(sofar.posts_by_day, day_names[weekday(dt) + 1]),
                    posts_by_hour |-> CounterAdd(sofar.posts_by_hour, dt.hour),
                    timestamps |-> Append(sofar.timestamps, dt) ]

(* sorted() can compare the datetimes: all aware or all naive; comparing   *)
(* a naive datetime with an aware one raises TypeError                     *)
Comparable(timestamps) ==
    \A i, j \in 1..Len(timestamps) : timestamps[i].aware = timestamps[j].aware

(* sorted(timestamps): by instant, earliest first *)
RECURSIVE sorted(_)
sorted(timestamps) ==
    IF timestamps = <<>> THEN <<>>
    ELSE LET n    == Len(timestamps)
             rest == sorted(SubSeq(timestamps, 1, n - 1))
             x    == timestamps[n]
             p    == Cardinality({ i \in 1..Len(rest) : rest[i].t <= x.t })
         IN  SubSeq(rest, 1, p) \o <<x>> \o SubSeq(rest, p + 1, Len(rest))

(* (b - a).days for a <= b *)
Days(a, b) == (b.t - a.t) \div 24

Gaps(timestamps_sorted) ==
    [i \in 1..(Len(timestamps_sorted) - 1) |->
        Days(timestamps_sorted[i], timestamps_sorted[i + 1])]

RECURSIVE SumOf(_)
SumOf(xs) == IF xs = <<>> THEN 0 ELSE Head(xs) + SumOf(Tail(xs))

RECURSIVE SumOfSquares(_)
SumOfSquares(xs) ==
    IF xs = <<>> THEN 0 ELSE Head(xs) * Head(xs) + SumOfSquares(Tail(xs))

ScoreDecimals == 1

(* _safe_float(max(0, 100 - (std / max(mean_gap, 1)) * 50), 1) in tenths,  *)
(* for two gaps or more.  With n gaps of sum s and sum of squares ss, the  *)
(* sample variance is (n*ss - s*s) / (n*(n-1)), so that                    *)
(* (std / max(mean_gap, 1))^2 is the rational va / vb below, and the score *)
(* in tenths is 1000 - 500 * sqrt(va / vb) rounded: 1000 - y for the       *)
(* integer y nearest to the root of q = 250000 * va / vb.                  *)
ConsistencyFull(gaps) == 1000

Consistency(gaps) ==
    LET n  == Len(gaps)
        s  == SumOf(gaps)
        ss == SumOfSquares(gaps)
        va == IF s >= n THEN (n * ss - s * s) * n ELSE n * ss - s * s
        vb == IF s >= n THEN (n - 1) * s * s ELSE n * (n - 1)
        q4 == 4 * 250000 * va
        y  == CHOOSE k \in 0..1000 :
                  /\ k = 0 \/ (2 * k - 1) * (2 * k - 1) * vb <= q4
                  /\ q4 <= (2 * k + 1) * (2 * k + 1) * vb
                  /\ q4 = (2 * k - 1) * (2 * k - 1) * vb => k % 2 = 0
                  /\ q4 = (2 * k + 1) * (2 * k + 1) * vb => k % 2 = 0
    IN  IF q4 >= 2000 * 2000 * vb THEN 0 ELSE 1000 - y

(* get_upload_schedule after the fetch, for a non-empty list *)
UploadSchedule(videos) ==
    LET tally == Tally(videos)
        timestamps == tally.timestamps
        gaps == IF Len(timestamps) > 1
                THEN Gaps(sorted(timestamps)) ELSE <<>>
        avg_days == IF Len(timestamps) > 1
                    THEN _safe_float(Rat(SumOf(gaps), Len(gaps)), ScoreDecimals)
                    ELSE 0
        (* statistics.stdev raises on a single gap, and the score stays 0.0 *)
        consistency_score == IF Len(gaps) >= 2 THEN Consistency(gaps) ELSE 0
        by_day == { tally.posts_by_day[i] : i \in 1..Len(tally.posts_by_day) }
        by_hour == { tally.posts_by_hour[i] : i \in 1..Len(tally.posts_by_hour) }
        DayIndex(e) == CHOOSE i \in 1..7 : day_names[i] = e.key
    IN  [ total_videos_analyzed |-> Len(videos),
          avg_days_between_uploads |-> avg_days,
          consistency_score_pct |-> consistency_score,
          posts_by_day |->
              [i \in 1..Cardinality(by_day) |->
                  CHOOSE e \in by_day :
                      Cardinality({ f \in by_day : DayIndex(f) < DayIndex(e) }) = i - 1],
          posts_by_hour |->
              [i \in 1..Cardinality(by_hour) |->
                  CHOOSE e \in by_hour :
                      Cardinality({ f \in by_hour : f.key < e.key }) = i - 1],
          best_posting_day |->
              IF tally.posts_by_day # <<>> THEN most_common(tally.posts_by_day)
              ELSE "",
          best_posting_hour |->
              IF tally.posts_by_hour # <<>>
              THEN <<most_common(tally.posts_by_hour), ":00 UTC">> ELSE <<>> ]

(* get_upload_schedule after the fetch: the ValueError of an empty list,   *)
(* the TypeError that leaves sorted(timestamps), which no try encloses,    *)
(* or the result                                                           *)
ScheduleOutcome(videos) ==
    IF videos = <<>>
    THEN Raise("ValueError", "No videos found for this channel.")
    ELSE IF Len(Tally(videos).timestamps) > 1
            /\ ~Comparable(Tally(videos).timestamps)
    THEN Raise("TypeError", "can't compare offset-naive and offset-aware datetimes")
    ELSE Return(UploadSchedule(videos))

MaxUploads == 3

PublishedAts ==
    { NoDate, IsoString(0, 9), IsoString(0, 21), IsoString(2, 9), IsoString(9, 3),
      NaiveString(5, 9) }

ScheduleRawVideos ==
    { RawVideo(id, Num(1), Num(0), Num(0), published) :
        id \in FetchIds, published \in PublishedAts }

InitSchedule ==
    /\ tool = "get_upload_schedule"
    /\ args = [channel_url |-> DirectUrl(FetchChannel), limit |-> MaxUploads]
    /\ pc = "start"
    /\ loc = <<>>
    /\ calls = <<>>
    /\ out = Running

GetUploadSchedule ==
    /\ tool = "get_upload_schedule" /\ pc = "start"
    /\ \E fetched \in FetchOutcomes(ScheduleRawVideos, MaxUploads) :
         IF fetched.kind = "raise"
         THEN out' = fetched /\ loc' = loc
         ELSE /\ loc' = [fetched |-> fetched.value, videos |-> fetched.value]
              /\ out' = ScheduleOutcome(fetched.value)
    /\ pc' = "done"
    /\ UNCHANGED <<tool, args, calls>>

NextSchedule == GetUploadSchedule

SpecSchedule == InitSchedule /\ [][NextSchedule]_vars

-----------------------------------------------------------------------------
(* The claim about channels with fewer than two dated uploads.             *)

ScheduleDone == tool = "get_upload_schedule" /\ pc = "done"

(* how many of the fetched records carry a publishedAt that parses *)
Parseable(videos) ==
    Cardinality({ i \in 1..Len(videos) : videos[i].published_at.iso })

(* C10: for every non-empty fetched list in which fewer than two           *)
(* published_at values are parseable, get_upload_schedule returns          *)
(* avg_days_between_uploads = 0.0 and consistency_score_pct = 0.0.         *)
C10_FewTimestamps ==
    (ScheduleDone /\ "fetched" \in DOMAIN loc /\ loc.fetched # <<>>
       /\ Parseable(loc.fetched) < 2)
    => /\ out.kind = "return"
       /\ out.value.avg_days_between_uploads = 0
       /\ out.value.consistency_score_pct = 0

(* three uploads of which one is dated, and the schedule returned for them *)
C10_Witness ==
    /\ ScheduleDone /\ out.kind = "return"
    /\ Len(loc.fetched) = 3
    /\ Parseable(loc.fetched) = 1
    /\ out.value.total_videos_analyzed = 3
    /\ out.value.avg_days_between_uploads = 0
    /\ out.value.best_posting_day = "Wednesday"

-----------------------------------------------------------------------------
(* Tool 6: analyze_thumbnail.  Three external calls: the videos lookup     *)
(* through _get, requests.head on the thumbnail URL, requests.get on it.   *)

(* videos?part=snippet&id=...: no item, or an item whose snippet holds     *)
(* some of the thumbnail tiers                                             *)
ThumbnailLookupResponses(video_id) ==
    Failures
      \cup { Ok(<<>>) }
      \cup { Ok(<<[id |-> video_id, thumbnails |-> t]>>) :
               t \in SUBSET Range(Qualities) }

(* what the image host does with the HEAD probe: it times out, or answers  *)
(* (2xx or not) with or without a Content-Length header                    *)
HeadResponses ==
    { [status |-> "Timeout", body |-> Absent] }
      \cup { [status |-> st, body |-> cl] :
               st \in {"ok", "HTTPError"}, cl \in {Absent, Num(0), Num(5)} }

(* what it does with the GET: a failure, or content of some length that    *)
(* the image library can decode (size w x h) or cannot                     *)
ImageResponses ==
    Failures
      \cup { Ok([length |-> n, decodes |-> d, width |-> 4, height |-> 3]) :
               n \in {0, 7}, d \in BOOLEAN }

InitThumbnail ==
    /\ tool = "analyze_thumbnail"
    /\ args \in { [video_id |-> id] : id \in VideoIds }
    /\ pc = "start"
    /\ loc = <<>>
    /\ calls = <<>>
    /\ out = Running

(* data = _get("videos", ...) up to the choice of thumbnail_url *)
ThumbnailLookup ==
    /\ tool = "analyze_thumbnail" /\ pc = "start"
    /\ \E resp \in ThumbnailLookupResponses(args.video_id) :
         LET r == get("videos", [part |-> "snippet", id |-> args.video_id], resp)
             thumbnail_url == _thumbnail_url(r.out.value[1].thumbnails)
         IN  /\ calls' = Append(calls, r.call)
             /\ IF r.out.kind = "raise"
                THEN out' = r.out /\ pc' = "done" /\ loc' = loc
                ELSE IF r.out.value = <<>>
                THEN /\ out' = Raise("ValueError", "No video found for ID")
                     /\ pc' = "done" /\ loc' = loc
                ELSE IF thumbnail_url = ""
                THEN /\ out' = Raise("ValueError", "No thumbnail URL found for video")
                     /\ pc' = "done" /\ loc' = loc
                ELSE /\ loc' = [thumbnail_url |-> thumbnail_url]
                     /\ pc' = "head" /\ out' = out
    /\ UNCHANGED <<tool, args>>

(* head_resp = requests.head(thumbnail_url, timeout=10): the call raises   *)
(* on a timeout; the status of an answer is not looked at                  *)
ThumbnailHead ==
    /\ tool = "analyze_thumbnail" /\ pc = "head"
    /\ \E resp \in HeadResponses :
         /\ calls' = Append(calls, Call("HEAD", loc.thumbnail_url, <<>>, resp))
         /\ IF resp.status = "Timeout"
            THEN out' = Raise("Timeout", loc.thumbnail_url) /\ pc' = "done" /\ loc' = loc
            ELSE /\ loc' = [thumbnail_url |-> loc.thumbnail_url,
                            file_size_bytes |-> _safe_int(DictGet(resp.body, Num(0)))]
                 /\ pc' = "image" /\ out' = out
    /\ UNCHANGED <<tool, args>>

(* img_resp = requests.get(...); img_resp.raise_for_status(); the decoding *)
(* and the returned dict                                                   *)
ThumbnailImage ==
    /\ tool = "analyze_thumbnail" /\ pc = "image"
    /\ \E resp \in ImageResponses :
         /\ calls' = Append(calls, Call("GET", loc.thumbnail_url, <<>>, resp))
         /\ out' = IF resp.status # "ok" THEN Raise(resp.status, loc.thumbnail_url)
                   ELSE Return(
                     [ video_id |-> args.video_id,
                       thumbnail_url |-> loc.thumbnail_url,
                       resolution |-> IF resp.body.decodes
                                      THEN <<resp.body.width, "x", resp.body.height>>
                                      ELSE <<"unknown">>,
                       file_size_bytes |-> IF loc.file_size_bytes = 0
                                           THEN resp.body.length
                                           ELSE loc.file_size_bytes ])
    /\ pc' = "done"
    /\ UNCHANGED <<tool, args, loc>>

NextThumbnail == ThumbnailLookup \/ ThumbnailHead \/ ThumbnailImage

SpecThumbnail == InitThumbnail /\ [][NextThumbnail]_vars

-----------------------------------------------------------------------------
(* The claim about failed external calls.                                  *)

FailedCalls == { i \in 1..Len(calls) : calls[i].status # "ok" }

(* C7: within one invocation, as soon as an external call (an API GET      *)
(* through _get, the thumbnail HEAD probe or the thumbnail GET) times out  *)
(* or answers with a non-2xx status, the invocation ends in UpstreamError: *)
(* the failed call is the last call, and no result is returned.            *)
C7_FailedCallEnds ==
    \A i \in FailedCalls :
        /\ i = Len(calls)
        /\ pc = "done"
        /\ IsUpstreamError(out)

(* the same statement without the HEAD probe: API GETs, the thumbnail GET  *)
(* and a HEAD probe that times out do end the invocation                   *)
C7_ExceptHeadStatus ==
    \A i \in FailedCalls :
        (calls[i].kind = "HEAD" /\ calls[i].status = "HTTPError")
        \/ (i = Len(calls) /\ pc = "done" /\ IsUpstreamError(out))

(* a thumbnail analysis returned although its HEAD probe was answered with *)
(* a non-2xx status, the Content-Length of that answer reported as the     *)
(* size of the image                                                       *)
C7_Witness ==
    /\ tool = "analyze_thumbnail" /\ pc = "done" /\ out.kind = "return"
    /\ Len(calls) = 3
    /\ calls[2].kind = "HEAD" /\ calls[2].status = "HTTPError"
    /\ calls[2].body = Num(5)
    /\ calls[3].kind = "GET" /\ calls[3].status = "ok"
    /\ calls[3].body.length = 7
    /\ out.value.file_size_bytes = 5

-----------------------------------------------------------------------------
(* server.py: call_tool and _dispatch.                                     *)

ToolNames ==
    { "get_channel_overview", "get_channel_videos", "get_video_details",
      "get_video_comments", "get_video_transcript", "analyze_thumbnail",
      "get_trending_videos", "compare_videos", "get_channel_topics",
      "compare_channels", "get_top_videos", "get_upload_schedule",
      "get_tag_analysis", "get_video_seo_score", "get_engagement_stats",
      "get_comment_keywords" }

(* the key _dispatch reads with args[...] for the tool, "" if it reads none *)
RequiredKey(name) ==
    IF name \in { "get_channel_overview", "get_channel_videos",
                  "get_channel_topics", "get_top_videos", "get_upload_schedule",
                  "get_tag_analysis", "get_engagement_stats" }
    THEN "channel_url"
    ELSE IF name \in { "get_video_details", "get_video_comments",
                       "get_video_transcript", "analyze_thumbnail",
                       "get_video_seo_score", "get_comment_keywords" }
    THEN "video_id"
    ELSE IF name = "compare_videos" THEN "video_ids"
    ELSE IF name = "compare_channels" THEN "channel_urls"
    ELSE ""

(* _dispatch(name, args), `core' being what the function of main.py does   *)
(* when it is called                                                       *)
_dispatch(name, arguments, core) ==
    IF name \notin ToolNames THEN Raise("ValueError", "Unknown tool")
    ELSE IF RequiredKey(name) # "" /\ RequiredKey(name) \notin DOMAIN arguments
    THEN Raise("KeyError", RequiredKey(name))
    ELSE core

(* json.dumps(value): the text that denotes the value *)
dumps(value) == [json |-> value]

CallToolResult(text, isError) ==
    [content |-> <<[type |-> "text", text |-> text]>>, isError |-> isError]

call_toolValueErrorOnly(name, arguments, core) ==
    LET result == _dispatch(name, arguments, core)
    IN  IF result.kind = "return"
        THEN Return(CallToolResult(dumps(result.value), FALSE))
        ELSE IF result.exc = "ValueError"
        THEN Return(CallToolResult(dumps([error |-> <<result.msg>>]), TRUE))
        ELSE result

call_tool(name, arguments, core) ==
    LET result == _dispatch(name, arguments, core)
    IN  IF result.kind = "return"
        THEN Return(CallToolResult(dumps(result.value), FALSE))
        ELSE IF result.exc = "ValueError"
        THEN Return(CallToolResult(dumps([error |-> <<result.msg>>]), TRUE))
        ELSE Return(CallToolResult(
                 dumps([error |-> <<"Internal server error: ", result.msg>>]), TRUE))

(* what a function of main.py may end with: a result, a ValueError of      *)
(* either meaning, a failure of requests, or another exception (a          *)
(* RuntimeError of a library, a TypeError on an ill-typed argument)        *)
CoreOutcomes ==
    { Return(<<>>), Return([video_id |-> "a", views |-> 3]) }
      \cup { Raise("ValueError", m) :
               m \in { "Unsupported channel URL format", "metric must be one of",
                       "Channel not found", "No video found for ID" } }
      \cup { Raise("HTTPError", "videos"), Raise("Timeout", "channels"),
             Raise("RuntimeError", "Transcript unavailable"),
             Raise("TypeError", "unhashable type") }

ArgumentKeys == {"channel_url", "video_id", "video_ids", "channel_urls", "limit"}

InitDispatch ==
    /\ tool \in ToolNames \cup {"get_everything"}
    /\ args \in { [k \in present |-> "value"] : present \in SUBSET ArgumentKeys }
    /\ pc = "start"
    /\ loc = <<>>
    /\ calls = <<>>
    /\ out = Running

(* one request handled by call_tool; loc keeps what _dispatch ended with *)
CallTool ==
    /\ pc = "start"
    /\ \E core \in CoreOutcomes :
         /\ loc' = [dispatched |-> _dispatch(tool, args, core)]
         /\ out' = call_tool(tool, args, core)
    /\ pc' = "done"
    /\ UNCHANGED <<tool, args, calls>>

NextDispatch == CallTool

SpecDispatch == InitDispatch /\ [][NextDispatch]_vars

-----------------------------------------------------------------------------
(* The claim about call_tool.                                              *)

(* the payload of a tool result is the one-key object {"error": message} *)
IsErrorPayload(text) ==
    /\ DOMAIN text = {"json"}
    /\ DOMAIN text.json = {"error"}
    /\ text.json.error \in { <<loc.dispatched.msg>>,
                             <<"Internal server error: ", loc.dispatched.msg>> }

(* C8: for every tool name, known or not, every argument bundle and every  *)
(* outcome of the core function, call_tool returns a result and propagates *)
(* no exception; on success the result has isError = false and its text is *)
(* the JSON of the core's result; on any failure (InvalidInput, NotFound,  *)
(* UpstreamError or another exception) it has isError = true and its text  *)
(* is the JSON of {"error": message}.                                      *)
C8_AlwaysAResult ==
    pc = "done" =>
        /\ out.kind = "return"
        /\ Len(out.value.content) = 1
        /\ IF loc.dispatched.kind = "return"
           THEN /\ out.value.isError = FALSE
                /\ out.value.content[1].text = dumps(loc.dispatched.value)
           ELSE /\ out.value.isError = TRUE
                /\ IsErrorPayload(out.value.content[1].text)

(* a known tool called without its required argument: the KeyError of      *)
(* _dispatch comes back as an error result                                 *)
C8_Witness ==
    /\ pc = "done" /\ tool = "compare_videos" /\ "video_ids" \notin DOMAIN args
    /\ loc.dispatched.exc = "KeyError"
    /\ out.kind = "return" /\ out.value.isError = TRUE
    /\ out.value.content[1].text.json.error =
           <<"Internal server error: ", "video_ids">>

-----------------------------------------------------------------------------
(* Tool 14: get_video_seo_score                                            *)

(* A title or description is a sequence of segments [k, n]: a run of n     *)
(* characters that are neither digits nor ":" and spell no "http"          *)
(* (k = "text"), the word http in lower or upper case (k = "http" or       *)
(* "HTTP", n = 4), a maximal run of n digits (k = "digits"), or a colon    *)
(* (k = ":", n = 1).                                                       *)
Seg(k, n) == [k |-> k, n |-> n]

RECURSIVE len(_)
len(text) == IF text = <<>> THEN 0 ELSE Head(text).n + len(Tail(text))

(* str.lower() *)
lower(text) ==
    [i \in 1..Len(text) |->
        IF text[i].k = "HTTP" THEN Seg("http", text[i].n) ELSE text[i]]

(* "http" in text *)
ContainsHttp(text) == \E i \in 1..Len(text) : text[i].k = "http"

(* bool(re.search(r"\d+:\d+", text)) *)
SearchChapters(text) ==
    \E i \in 1..(Len(text) - 2) :
        text[i].k = "digits" /\ text[i + 1].k = ":" /\ text[i + 2].k = "digits"

Check(score, status, note) == [score |-> score, status |-> status, note |-> note]

title_lengthExclusive(tlen) ==
    IF 40 < tlen /\ tlen < 70
    THEN Check(100, "great", <<tlen, " chars (ideal: 40-70)">>)
    ELSE IF 20 <= tlen /\ tlen < 40
    THEN Check(70, "ok", <<tlen, " chars (a bit short, ideal: 40-70)">>)
    ELSE IF tlen > 70
    THEN Check(60, "ok", <<tlen, " chars (a bit long, ideal: 40-70)">>)
    ELSE Check(30, "poor", <<tlen, " chars (too short)">>)

title_length(tlen) ==
    IF 40 <= tlen /\ tlen <= 70
    THEN Check(100, "great", <<tlen, " chars (ideal: 40-70)">>)
    ELSE IF 20 <= tlen /\ tlen < 40
    THEN Check(70, "ok", <<tlen, " chars (a bit short, ideal: 40-70)">>)
    ELSE IF tlen > 70
    THEN Check(60, "ok", <<tlen, " chars (a bit long, ideal: 40-70)">>)
    ELSE Check(30, "poor", <<tlen, " chars (too short)">>)

description_length(dlen) ==
    IF dlen >= 500 THEN Check(100, "great", <<dlen, " chars">>)
    ELSE IF dlen >= 200 THEN Check(80, "good", <<dlen, " chars (ideal: 500+)">>)
    ELSE IF dlen >= 50 THEN Check(50, "ok", <<dlen, " chars (ideal: 200+)">>)
    ELSE Check(10, "poor", <<dlen, " chars (missing or very short)">>)

tag_count(tcount) ==
    IF 5 <= tcount /\ tcount <= 15
    THEN Check(100, "great", <<tcount, " tags (ideal: 5-15)">>)
    ELSE IF tcount > 15
    THEN Check(70, "ok", <<tcount, " tags (slightly over, ideal: 5-15)">>)
    ELSE IF 1 <= tcount /\ tcount < 5
    THEN Check(50, "ok", <<tcount, " tags (too few, ideal: 5-15)">>)
    ELSE Check(0, "poor", <<"No tags found">>)

thumbnail_check(thumbnail) ==
    IF thumbnail # "" THEN Check(100, "great", <<"Thumbnail present">>)
    ELSE Check(0, "poor", <<"No thumbnail found">>)

(* a description scored 40 for each of links and chapters, without the cap *)
description_qualityUncapped(description) ==
    LET has_links    == ContainsHttp(lower(description))
        has_chapters == SearchChapters(description)
        desc_score   == 60 + (IF has_links THEN 40 ELSE 0)
                           + (IF has_chapters THEN 40 ELSE 0)
    IN  Check(desc_score,
              IF desc_score >= 90 THEN "great"
              ELSE IF desc_score >= 70 THEN "good" ELSE "ok",
              <<"no links or timestamps detected">>)

description_quality(description) ==
    LET has_links    == ContainsHttp(lower(description))
        has_chapters == SearchChapters(description)
        desc_score   == 60 + (IF has_links THEN 20 ELSE 0)
                           + (IF has_chapters THEN 20 ELSE 0)
        desc_notes   == (IF has_links THEN <<"has links">> ELSE <<>>)
                          \o (IF has_chapters THEN <<"has chapters/timestamps">>
                              ELSE <<>>)
    IN  Check(Min(desc_score, 100),
              IF desc_score >= 90 THEN "great"
              ELSE IF desc_score >= 70 THEN "good" ELSE "ok",
              IF desc_notes # <<>> THEN desc_notes
              ELSE <<"no links or timestamps detected">>)

(* get_video_seo_score after the lookup, for the first item of the answer *)
SeoScore(video_id, item) ==
    LET checks ==
            [ title_length |-> title_length(len(item.title)),
              description_length |-> description_length(len(item.description)),
              tag_count |-> tag_count(Len(item.tags)),
              thumbnail |-> thumbnail_check(_thumbnail_url(item.thumbnails)),
              description_quality |-> description_quality(item.description) ]
        total == checks.title_length.score + checks.description_length.score
                   + checks.tag_count.score + checks.thumbnail.score
                   + checks.description_quality.score
    IN  [ video_id |-> video_id,
          title |-> item.title,
          overall_score |-> RoundDiv(total, Cardinality(DOMAIN checks)),
          checks |-> checks ]

SeoTitles == { IF n = 0 THEN <<>> ELSE <<Seg("text", n)>> :
                 n \in {0, 19, 20, 39, 40, 55, 70, 71} }

SeoPrefixes ==
    { <<>>, <<Seg("http", 4)>>, <<Seg("HTTP", 4)>>,
      <<Seg("digits", 1), Seg(":", 1), Seg("digits", 2)>>,
      <<Seg("digits", 2), Seg(":", 1)>>,
      <<Seg("digits", 2), Seg("text", 1), Seg(":", 1), Seg("digits", 2)>>,
      <<Seg("HTTP", 4), Seg("digits", 1), Seg(":", 1), Seg("digits", 2)>> }

SeoDescriptions ==
    { prefix \o (IF n = 0 THEN <<>> ELSE <<Seg("text", n)>>) :
        prefix \in SeoPrefixes, n \in {0, 45, 49, 50, 196, 200, 492, 500} }

SeoTags == { [i \in 1..n |-> "tag"] : n \in {0, 1, 4, 5, 15, 16} }

SeoRawVideos(id) ==
    { [id |-> id, title |-> t, description |-> d, tags |-> g, thumbnails |-> th] :
        t \in SeoTitles, d \in SeoDescriptions, g \in SeoTags,
        th \in { {}, {"medium", "default"} } }

SeoResponses(id) ==
    Failures \cup { Ok(<<>>) } \cup { Ok(<<item>>) : item \in SeoRawVideos(id) }

InitSeo ==
    /\ tool = "get_video_seo_score"
    /\ args = [video_id |-> "a"]
    /\ pc = "start"
    /\ loc = <<>>
    /\ calls = <<>>
    /\ out = Running

GetVideoSeoScore ==
    /\ tool = "get_video_seo_score" /\ pc = "start"
    /\ \E resp \in SeoResponses(args.video_id) :
         LET r == get("videos", [part |-> "snippet,contentDetails,statistics",
                                 id |-> args.video_id], resp)
         IN  /\ calls' = Append(calls, r.call)
             /\ out' = IF r.out.kind = "raise" THEN r.out
                       ELSE IF r.out.value = <<>>
                       THEN Raise("ValueError", "No video found for ID")
                       ELSE Return(SeoScore(args.video_id, r.out.value[1]))
    /\ pc' = "done"
    /\ UNCHANGED <<tool, args, loc>>

NextSeo == GetVideoSeoScore

SpecSeo == InitSeo /\ [][NextSeo]_vars

-----------------------------------------------------------------------------
(* The claim about the SEO score.                                          *)

SeoDone == tool = "get_video_seo_score" /\ pc = "done" /\ out.kind = "return"

SeoCheckNames ==
    { "title_length", "description_length", "tag_count", "thumbnail",
      "description_quality" }

(* the number of characters of a text, segment by segment *)
RECURSIVE Characters(_)
Characters(text) ==
    IF text = <<>> THEN 0 ELSE text[Len(text)].n + Characters(SubSeq(text, 1, Len(text) - 1))

(* C11: get_video_seo_score always produces exactly five checks, and       *)
(* overall_score is the unweighted mean of the five scores rounded to the  *)
(* nearest integer; a title of 40 to 70 characters gets title_length 100   *)
(* and "great", and a video without tags gets tag_count 0 and "poor".      *)
C11_SeoScore ==
    SeoDone =>
        LET item   == calls[1].body[1]
            checks == out.value.checks
            total  == checks.title_length.score + checks.description_length.score
                        + checks.tag_count.score + checks.thumbnail.score
                        + checks.description_quality.score
        IN  /\ DOMAIN checks = SeoCheckNames
            /\ Cardinality(DOMAIN checks) = 5
            /\ 2 * (5 * out.value.overall_score - total) <= 5
            /\ 2 * (total - 5 * out.value.overall_score) <= 5
            /\ (Characters(item.title) >= 40 /\ Characters(item.title) <= 70)
                 => (checks.title_length.score = 100
                       /\ checks.title_length.status = "great")
            /\ item.tags = <<>>
                 => (checks.tag_count.score = 0 /\ checks.tag_count.status = "poor")

(* a video with a 40-character title and no tags, scored                   *)
(* (100 + 10 + 0 + 0 + 60) / 5 = 34                                        *)
C11_Witness ==
    /\ SeoDone
    /\ Characters(calls[1].body[1].title) = 40
    /\ calls[1].body[1].tags = <<>>
    /\ out.value.checks.title_length.score = 100
    /\ out.value.checks.tag_count.score = 0
    /\ out.value.overall_score = 34

-----------------------------------------------------------------------------
(* Tool 13: get_tag_analysis.  A tag is a sequence of characters: the      *)
(* letters "a", "b" in lower and upper case, and the space.                *)

LowerOf == [c \in {"a", "b", "A", "B", " "} |->
               IF c = "A" THEN "a" ELSE IF c = "B" THEN "b" ELSE c]

(* str.lower() of a tag *)
tag_lower(tag) == [i \in 1..Len(tag) |-> LowerOf[tag[i]]]

RECURSIVE lstrip(_)
lstrip(tag) == IF tag # <<>> /\ Head(tag) = " " THEN lstrip(Tail(tag)) ELSE tag

RECURSIVE rstrip_space(_)
rstrip_space(tag) ==
    IF tag # <<>> /\ tag[Len(tag)] = " "
    THEN rstrip_space(SubSeq(tag, 1, Len(tag) - 1)) ELSE tag

(* str.strip() *)
strip(tag) == rstrip_space(lstrip(tag))

(* tag.lower().strip() *)
NormalizeTagNoStrip(tag) == tag_lower(tag)

NormalizeTag(tag) == strip(tag_lower(tag))

(* tag_views.setdefault(tag_lower, []).append(views): tag_views is the     *)
(* sequence of its [tag, view_list] entries in insertion order             *)
SetDefaultAppend(tag_views, tag, views) ==
    IF \E i \in 1..Len(tag_views) : tag_views[i].tag = tag
    THEN [i \in 1..Len(tag_views) |->
             IF tag_views[i].tag = tag
             THEN [tag |-> tag, view_list |-> Append(tag_views[i].view_list, views)]
             ELSE tag_views[i]]
    ELSE Append(tag_views, [tag |-> tag, view_list |-> <<views>>])

(* the inner loop: the tags of one video *)
RECURSIVE AddTags(_, _, _)
AddTags(tag_views, tags, views) ==
    IF tags = <<>> THEN tag_views
    ELSE LET tag_l == NormalizeTag(Head(tags))
         IN  AddTags(IF tag_l # <<>> THEN SetDefaultAppend(tag_views, tag_l, views)
                     ELSE tag_views,
                     Tail(tags), views)

(* the outer loop: the videos in fetched order *)
RECURSIVE TagViews(_)
TagViews(videos) ==
    IF videos = <<>> THEN <<>>
    ELSE LET n == Len(videos)
         IN  AddTags(TagViews(SubSeq(videos, 1, n - 1)),
                     videos[n].tags, videos[n].views)

TopTagsCap == 2

TagStat(entry) ==
    [ tag |-> entry.tag,
      count |-> Len(entry.view_list),
      avg_views |-> _safe_float(Rat(SumOf(entry.view_list), Len(entry.view_list)), 0) ]

(* get_tag_analysis after the fetch, for a non-empty list *)
TagAnalysis(videos) ==
    LET tag_views == TagViews(videos)
        tag_stats == [i \in 1..Len(tag_views) |-> TagStat(tag_views[i])]
    IN  IF tag_views = <<>>
        THEN [ total_videos_analyzed |-> Len(videos), unique_tags |-> 0,
               top_tags_by_frequency |-> <<>>, top_tags_by_avg_views |-> <<>> ]
        ELSE [ total_videos_analyzed |-> Len(videos),
               unique_tags |-> Len(tag_views),
               top_tags_by_frequency |->
                   SliceTo(SortedReverse(tag_stats, "count"), TopTagsCap),
               top_tags_by_avg_views |->
                   SliceTo(SortedReverse(tag_stats, "avg_views"), TopTagsCap) ]

TagLists ==
    { <<>>,
      << <<"a">> >>,
      << <<"A">>, <<" ", "a", " ">> >>,
      << <<"a", " ", "b">>, <<"B">> >>,
      << <<" ">>, <<>> >>,
      << <<"A", " ", "B", " ">>, <<"a">> >>,
      << <<"b">>, <<"b">> >> }

TaggedRawVideos ==
    { [RawVideo(id, views, Num(0), Num(0), "p") EXCEPT !.tags = tags] :
        id \in FetchIds, views \in {Num(1), Num(4)}, tags \in TagLists }

InitTags ==
    /\ tool = "get_tag_analysis"
    /\ args = [channel_url |-> DirectUrl(FetchChannel), limit |-> MaxVideos]
    /\ pc = "start"
    /\ loc = <<>>
    /\ calls = <<>>
    /\ out = Running

GetTagAnalysis ==
    /\ tool = "get_tag_analysis" /\ pc = "start"
    /\ \E fetched \in FetchOutcomes(TaggedRawVideos, MaxVideos) :
         IF fetched.kind = "raise"
         THEN out' = fetched /\ loc' = loc
         ELSE /\ loc' = [fetched |-> fetched.value, videos |-> fetched.value]
              /\ out' = IF fetched.value = <<>>
                        THEN Raise("ValueError", "No videos found for this channel.")
                        ELSE Return(TagAnalysis(fetched.value))
    /\ pc' = "done"
    /\ UNCHANGED <<tool, args, calls>>

NextTags == GetTagAnalysis

SpecTags == InitTags /\ [][NextTags]_vars

-----------------------------------------------------------------------------
(* The claim about tag grouping.                                           *)

TagsDone == tool = "get_tag_analysis" /\ pc = "done" /\ out.kind = "return"

(* Two tags differ only in case or surrounding whitespace when, between    *)
(* their first and last non-space characters, they spell the same letters. *)
Inner(tag) ==
    LET letters == { i \in 1..Len(tag) : tag[i] # " " }
    IN  IF letters = {} THEN <<>>
        ELSE LET first == CHOOSE i \in letters : \A j \in letters : i <= j
                 last  == CHOOSE i \in letters : \A j \in letters : j <= i
             IN  [i \in 1..(last - first + 1) |->
                     IF tag[first + i - 1] \in {"a", "A"} THEN "a"
                     ELSE IF tag[first + i - 1] \in {"b", "B"} THEN "b"
                     ELSE " "]

(* the tag occurrences of the fetched videos, as <<video, position>> *)
TagOccurrences ==
    UNION { { <<v, k>> : k \in 1..Len(loc.fetched[v].tags) } :
              v \in 1..Len(loc.fetched) }

OccurrencesOf(t) ==
    { o \in TagOccurrences : Inner(loc.fetched[o[1]].tags[o[2]]) = t }

DistinctTags ==
    { Inner(loc.fetched[o[1]].tags[o[2]]) : o \in TagOccurrences } \ { <<>> }

EntriesRight(entries) ==
    /\ \A i \in 1..Len(entries) :
         /\ entries[i].tag \in DistinctTags
         /\ entries[i].count = Cardinality(OccurrencesOf(entries[i].tag))
    /\ \A i, j \in 1..Len(entries) : entries[i].tag = entries[j].tag => i = j
    /\ Len(entries) = Min(TopTagsCap, Cardinality(DistinctTags))

(* C12: get_tag_analysis groups tags after lower-casing and trimming them  *)
(* and drops empty results: for every non-empty video list, tags that      *)
(* differ only in case or surrounding whitespace share one entry, the      *)
(* count of an entry is the number of tag occurrences, over all videos,    *)
(* whose normalized form is its tag, and unique_tags is the number of      *)
(* distinct normalized non-empty tags.                                     *)
C12_TagGrouping ==
    TagsDone =>
        /\ out.value.unique_tags = Cardinality(DistinctTags)
        /\ EntriesRight(out.value.top_tags_by_frequency)
        /\ EntriesRight(out.value.top_tags_by_avg_views)

(* "A" and " a " of one video and "a" of another make one entry of count 3 *)
C12_Witness ==
    /\ TagsDone
    /\ Len(loc.fetched) = 2
    /\ loc.fetched[1].tags = << <<"A">>, <<" ", "a", " ">> >>
    /\ loc.fetched[2].tags = << <<"a">> >>
    /\ out.value.unique_tags = 1
    /\ out.value.top_tags_by_frequency[1].tag = <<"a">>
    /\ out.value.top_tags_by_frequency[1].count = 3

-----------------------------------------------------------------------------
(* Tool 16: get_comment_keywords.  A comment text is a sequence of         *)
(* lexemes, the units word_tokenize splits a text into: a lexeme is        *)
(* [s, upper], s its spelling in lower case and upper telling whether the  *)
(* comment writes it with capitals.                                        *)

Lexeme(s, upper) == [s |-> s, upper |-> upper]

(* the spellings of the model: their length and whether str.isalpha() *)
Lexicon ==
    [ s \in {"good", "nice", "video", "the", "ok", "42", "!"} |->
        IF s = "good" THEN [n |-> 4, alpha |-> TRUE]
        ELSE IF s = "nice" THEN [n |-> 4, alpha |-> TRUE]
        ELSE IF s = "video" THEN [n |-> 5, alpha |-> TRUE]
        ELSE IF s = "the" THEN [n |-> 3, alpha |-> TRUE]
        ELSE IF s = "ok" THEN [n |-> 2, alpha |-> TRUE]
        ELSE IF s = "42" THEN [n |-> 2, alpha |-> FALSE]
        ELSE [n |-> 1, alpha |-> FALSE] ]

(* set(nltk_stopwords.words("english")), as far as the lexicon goes *)
STOPWORDS == {"the"}

(* " ".join(c["text"] for c in comments) *)
RECURSIVE JoinTexts(_)
JoinTexts(comments) ==
    IF comments = <<>> THEN <<>>
    ELSE Head(comments).text \o JoinTexts(Tail(comments))

(* word_tokenize(all_text.lower()): the spellings, in text order *)
word_tokenize_lower(all_text) == [i \in 1..Len(all_text) |-> all_text[i].s]

(* w.isalpha() and len(w) >= 3 and w not in STOPWORDS *)
KeepAnyLength(w) == Lexicon[w].alpha /\ w \notin STOPWORDS

Keep(w) == Lexicon[w].alpha /\ Lexicon[w].n >= 3 /\ w \notin STOPWORDS

(* Counter(filtered): entries in the order of first occurrence *)
RECURSIVE CounterOf(_)
CounterOf(tokens) ==
    IF tokens = <<>> THEN <<>>
    ELSE LET n     == Len(tokens)
             sofar == CounterOf(SubSeq(tokens, 1, n - 1))
         IN  IF Keep(tokens[n]) THEN CounterAdd(sofar, tokens[n]) ELSE sofar

(* counter.most_common(n) for n >= 0: heapq.nlargest(n, items, key=count), *)
(* which is sorted(items, key=count, reverse=True)[:n]                     *)
most_common_n(counter, n) == SliceTo(SortedReverse(counter, "n"), n)

(* get_comment_keywords after get_video_comments has returned *)
CommentKeywords(video_id, comment_data, top_n) ==
    LET all_text == JoinTexts(comment_data.comments)
        tokens   == word_tokenize_lower(all_text)
        counter  == CounterOf(tokens)
        top      == most_common_n(counter, top_n)
    IN  [ video_id |-> video_id,
          comments_analyzed |-> comment_data.returned_comment_count,
          top_keywords |->
              [i \in 1..Len(top) |-> [word |-> top[i].key, count |-> top[i].n]] ]

MaxComments == 3

MaxTopN == 3

CommentTexts ==
    { <<>>,
      <<Lexeme("good", FALSE), Lexeme("video", FALSE), Lexeme("!", FALSE)>>,
      <<Lexeme("good", TRUE)>>,
      <<Lexeme("the", TRUE), Lexeme("nice", FALSE), Lexeme("ok", FALSE)>>,
      <<Lexeme("42", FALSE), Lexeme("nice", TRUE), Lexeme("good", FALSE)>>,
      <<Lexeme("video", FALSE), Lexeme("nice", FALSE)>> }

Comment(text) ==
    [author |-> "x", text |-> text, like_count |-> 0, published_at |-> "p"]

(* what get_video_comments may end with: a failure of one of its calls, or *)
(* the comments of up to n threads                                         *)
CommentOutcomes(video_id, n) ==
    { Raise("HTTPError", "commentThreads"), Raise("Timeout", "videos") }
      \cup { Return([ video_id |-> video_id,
                      total_comment_count |-> Len(texts),
                      returned_comment_count |-> Len(texts),
                      comments |-> [i \in 1..Len(texts) |-> Comment(texts[i])] ]) :
               texts \in SeqsUpTo(CommentTexts, n) }

InitKeywords ==
    /\ tool = "get_comment_keywords"
    /\ args \in { [video_id |-> "a", limit |-> MaxComments, top_n |-> n] :
                    n \in 0..MaxTopN }
    /\ pc = "start"
    /\ loc = <<>>
    /\ calls = <<>>
    /\ out = Running

GetCommentKeywords ==
    /\ tool = "get_comment_keywords" /\ pc = "start"
    /\ \E comment_data \in CommentOutcomes(args.video_id, args.limit) :
         IF comment_data.kind = "raise"
         THEN out' = comment_data /\ loc' = loc
         ELSE /\ loc' = [comment_data |-> comment_data.value]
              /\ out' = Return(CommentKeywords(args.video_id, comment_data.value,
                                               args.top_n))
    /\ pc' = "done"
    /\ UNCHANGED <<tool, args, calls>>

NextKeywords == GetCommentKeywords

SpecKeywords == InitKeywords /\ [][NextKeywords]_vars

-----------------------------------------------------------------------------
(* The claim about the keyword list.                                       *)

KeywordsDone == tool = "get_comment_keywords" /\ pc = "done" /\ out.kind = "return"

(* the words of the comments in reading order, in lower case *)
WordsRead ==
    LET texts == [i \in 1..Len(loc.comment_data.comments) |->
                     loc.comment_data.comments[i].text]
        all   == Flatten(texts)
    IN  [i \in 1..Len(all) |-> all[i].s]

FirstSeen(w) == CHOOSE i \in 1..Len(WordsRead) :
                    WordsRead[i] = w /\ \A j \in 1..(i - 1) : WordsRead[j] # w

TimesSeen(w) == Cardinality({ i \in 1..Len(WordsRead) : WordsRead[i] = w })

(* C13: for every comment set and every top_n, top_keywords has at most    *)
(* top_n entries, holds no token shorter than 3 characters and no          *)
(* stopword, is ordered by non-increasing count, and lists tokens of equal *)
(* count in the order of their first occurrence in the concatenated text.  *)
C13_TopKeywords ==
    KeywordsDone =>
        LET top == out.value.top_keywords
        IN  /\ Len(top) <= args.top_n
            /\ \A i \in 1..Len(top) :
                 /\ Lexicon[top[i].word].n >= 3
                 /\ top[i].word \notin STOPWORDS
                 /\ top[i].count = TimesSeen(top[i].word)
            /\ \A i, j \in 1..Len(top) :
                 i < j => /\ top[i].count >= top[j].count
                          /\ top[i].count = top[j].count
                               => FirstSeen(top[i].word) < FirstSeen(top[j].word)

(* "video nice" then "Good": three words of count 1 in reading order, with *)
(* top_n = 3                                                               *)
C13_Witness ==
    /\ KeywordsDone
    /\ args.top_n = 3
    /\ Len(out.value.top_keywords) = 3
    /\ out.value.top_keywords[1].word = "video"
    /\ out.value.top_keywords[2].word = "nice"
    /\ out.value.top_keywords[3].word = "good"
    /\ \A i \in 1..3 : out.value.top_keywords[i].count = 1

-----------------------------------------------------------------------------
(* Normalization of the numeric fields of one raw record: the loop body of *)
(* _fetch_videos_for_channel and the dict of get_channel_overview.         *)
(* Besides an absent field, an unparsable string and a number, a field may *)
(* hold the JSON null, or a JSON number beyond the range of a float (such  *)
(* as 1e400), which the JSON decoder reads as the float infinity.          *)

Null == [t |-> "null", n |-> 0]

Huge == [t |-> "inf", n |-> 0]

(* int(value) raises OverflowError on an infinite float; the except clause *)
(* of _safe_int lists TypeError and ValueError only                        *)
IntOverflows(value) == value.t = "inf"

(* _safe_int as a call that may raise: what it ends with *)
SafeIntOutcome(value) ==
    IF IntOverflows(value)
    THEN Raise("OverflowError", "cannot convert float infinity to integer")
    ELSE Return(_safe_int(value))

(* int() accepts a sign: "-2" and -2 give the integer -2 *)
CountValues == { Absent, Null, Junk, Num(0), Num(7), Num(-2), Huge }

(* "PT0S", "PT1M3S" and a text that is no duration *)
NormalizeDurations ==
    { PT0S,
      <<Tok("P"), Tok("T"), Digits(1), Tok("M"), Digits(3), Tok("S")>>,
      <<Tok("x")>> }

InitNormalize ==
    /\ \/ /\ tool = "_fetch_videos_for_channel"
          /\ args \in { [item |-> [RawVideo("a", v, l, c, "p") EXCEPT !.duration = d]] :
                          v \in CountValues, l \in CountValues, c \in CountValues,
                          d \in NormalizeDurations }
       \/ /\ tool = "get_channel_overview"
          /\ args \in { [item |-> RawChannel(FetchChannel, sub, v, n)] :
                          sub \in CountValues, v \in CountValues, n \in CountValues }
    /\ pc = "start"
    /\ loc = <<>>
    /\ calls = <<>>
    /\ out = Running

(* the first of the outcomes that is a raise, or else the record *)
FirstRaise(outcomes, record) ==
    IF \E i \in 1..Len(outcomes) : outcomes[i].kind = "raise"
    THEN outcomes[CHOOSE i \in 1..Len(outcomes) :
                     /\ outcomes[i].kind = "raise"
                     /\ \A j \in 1..(i - 1) : outcomes[j].kind # "raise"]
    ELSE Return(record)

(* videos.append({...}) for one item of a videos answer *)
NormalizeVideo ==
    /\ tool = "_fetch_videos_for_channel" /\ pc = "start"
    /\ out' = FirstRaise(
                << SafeIntOutcome(DictGet(args.item.viewCount, Num(0))),
                   SafeIntOutcome(DictGet(args.item.likeCount, Num(0))),
                   SafeIntOutcome(DictGet(args.item.commentCount, Num(0))) >>,
                VideoRecord(args.item))
    /\ pc' = "done"
    /\ UNCHANGED <<tool, args, loc, calls>>

(* the return {...} of get_channel_overview for the first item *)
NormalizeChannel ==
    /\ tool = "get_channel_overview" /\ pc = "start"
    /\ out' = FirstRaise(
                << SafeIntOutcome(DictGet(args.item.subscriberCount, Num(0))),
                   SafeIntOutcome(DictGet(args.item.viewCount, Num(0))),
                   SafeIntOutcome(DictGet(args.item.videoCount, Num(0))) >>,
                ChannelRecord(args.item.id, args.item))
    /\ pc' = "done"
    /\ UNCHANGED <<tool, args, loc, calls>>

NextNormalize == NormalizeVideo \/ NormalizeChannel

SpecNormalize == InitNormalize /\ [][NextNormalize]_vars

-----------------------------------------------------------------------------
(* The claim about numeric fields.                                         *)

(* what the claim expects of one field: its integer, or 0 *)
Expected(value) == IF value.t = "num" THEN value.n ELSE 0

FieldsAsExpected ==
    IF tool = "get_channel_overview"
    THEN /\ out.value.subscriber_count = Expected(args.item.subscriberCount)
         /\ out.value.total_views = Expected(args.item.viewCount)
         /\ out.value.total_videos = Expected(args.item.videoCount)
    ELSE /\ out.value.views = Expected(args.item.viewCount)
         /\ out.value.likes = Expected(args.item.likeCount)
         /\ out.value.comments = Expected(args.item.commentCount)

RawCounts ==
    IF tool = "get_channel_overview"
    THEN {args.item.subscriberCount, args.item.viewCount, args.item.videoCount}
    ELSE {args.item.viewCount, args.item.likeCount, args.item.commentCount}

(* C14: for every raw API record, each numeric field (view, like, comment, *)
(* subscriber and video counts) that is absent or not parseable as an      *)
(* integer is normalized to 0, and the normalization of a numeric field    *)
(* never raises.                                                           *)
C14_NeverRaises ==
    pc = "done" => (out.kind = "return" /\ FieldsAsExpected)

(* the same for records none of whose counts is a number out of range *)
C14_InRange ==
    (pc = "done" /\ Huge \notin RawCounts) => (out.kind = "return" /\ FieldsAsExpected)

(* a video record whose likeCount is out of range, with an ordinary view   *)
(* count: the normalization ends in OverflowError                          *)
C14_Witness ==
    /\ pc = "done" /\ tool = "_fetch_videos_for_channel"
    /\ args.item.viewCount = Num(7)
    /\ args.item.likeCount = Huge
    /\ out.kind = "raise" /\ out.exc = "OverflowError"

-----------------------------------------------------------------------------
(* _thumbnail_url applied to a thumbnails dict: any of the five tiers and, *)
(* possibly, a key that is no tier.                                        *)

ThumbnailKeys == Range(Qualities) \cup {"custom"}

InitThumbnailUrl ==
    /\ tool = "_thumbnail_url"
    /\ args \in { [thumbnails |-> t] : t \in SUBSET ThumbnailKeys }
    /\ pc = "start"
    /\ loc = <<>>
    /\ calls = <<>>
    /\ out = Running

ApplyThumbnailUrl ==
    /\ tool = "_thumbnail_url" /\ pc = "start"
    /\ out' = Return(_thumbnail_url(args.thumbnails))
    /\ pc' = "done"
    /\ UNCHANGED <<tool, args, loc, calls>>

NextThumbnailUrl == ApplyThumbnailUrl

SpecThumbnailUrl == InitThumbnailUrl /\ [][NextThumbnailUrl]_vars

-----------------------------------------------------------------------------
(* The claim about the thumbnail tiers.                                    *)

(* maxres > standard > high > medium > default *)
TierRank ==
    [ q \in {"maxres", "standard", "high", "medium", "default"} |->
        IF q = "maxres" THEN 5 ELSE IF q = "standard" THEN 4
        ELSE IF q = "high" THEN 3 ELSE IF q = "medium" THEN 2 ELSE 1 ]

TiersPresent == args.thumbnails \cap DOMAIN TierRank

(* C15: for every subset of the tiers maxres, standard, high, medium and   *)
(* default present in the input, _thumbnail_url returns the URL of the     *)
(* highest-ranked present tier, and it returns the empty string only when  *)
(* none of the five tiers is present.                                      *)
C15_BestTier ==
    (tool = "_thumbnail_url" /\ pc = "done") =>
        /\ out.kind = "return"
        /\ (out.value = "") <=> (TiersPresent = {})
        /\ TiersPresent # {} =>
             /\ out.value \in TiersPresent
             /\ \A q \in TiersPresent : TierRank[q] <= TierRank[out.value]

(* standard, medium and a key that is no tier: the standard URL is chosen *)
C15_Witness ==
    /\ tool = "_thumbnail_url" /\ pc = "done"
    /\ args.thumbnails = {"standard", "medium", "custom"}
    /\ out.value = "standard"

-----------------------------------------------------------------------------
(* _parse_duration applied to a duration string: a prefix, then up to      *)
(* MaxChunks chunks, each a component (digits and a unit letter) or a      *)
(* stray piece of text.                                                    *)

MaxChunks == 3

DurationPrefixes ==
    { <<>>, <<Tok("P"), Tok("T")>>, <<Tok("P")>>, <<Tok("x"), Tok("P"), Tok("T")>>,
      <<Tok("P"), Digits(1), Tok("x"), Tok("T")>> }

DurationChunks ==
    { <<Digits(1), Tok("H")>>, <<Digits(2), Tok("M")>>, <<Digits(3), Tok("S")>>,
      <<Digits(0), Tok("S")>>, <<Digits(4)>>, <<Tok("x")>>, <<Tok("M")>> }

(* no two digit runs side by side: a run of digits is one token *)
MaximalRuns(toks) ==
    \A i \in 1..(Len(toks) - 1) : ~(toks[i].k = "num" /\ toks[i + 1].k = "num")

DurationStrings ==
    { d \in { prefix \o Flatten(chunks) :
                prefix \in DurationPrefixes,
                chunks \in SeqsUpTo(DurationChunks, MaxChunks) } :
        MaximalRuns(d) }

InitDuration ==
    /\ tool = "_parse_duration"
    /\ args \in { [iso_duration |-> d] : d \in DurationStrings }
    /\ pc = "start"
    /\ loc = <<>>
    /\ calls = <<>>
    /\ out = Running

ApplyParseDuration ==
    /\ tool = "_parse_duration" /\ pc = "start"
    /\ out' = Return(_parse_duration(args.iso_duration))
    /\ pc' = "done"
    /\ UNCHANGED <<tool, args, loc, calls>>

NextDuration == ApplyParseDuration

SpecDuration == InitDuration /\ [][NextDuration]_vars

-----------------------------------------------------------------------------
(* The claim about durations.                                              *)

UnitOrder == [u \in {"H", "M", "S"} |-> IF u = "H" THEN 1 ELSE IF u = "M" THEN 2 ELSE 3]

UnitSeconds == [u \in {"H", "M", "S"} |-> IF u = "H" THEN 3600 ELSE IF u = "M" THEN 60 ELSE 1]

(* a compact duration: "PT", then components digits+letter, each unit at   *)
(* most once, hours before minutes before seconds, and nothing else        *)
IsCompact(d) ==
    /\ Len(d) >= 2 /\ Len(d) % 2 = 0
    /\ d[1].k = "P" /\ d[2].k = "T"
    /\ \A i \in 2..(Len(d) \div 2) :
         /\ d[2 * i - 1].k = "num"
         /\ d[2 * i].k \in DOMAIN UnitOrder
    /\ \A i, j \in 2..(Len(d) \div 2) :
         i < j => UnitOrder[d[2 * i].k] < UnitOrder[d[2 * j].k]

RECURSIVE CompactSeconds(_)
CompactSeconds(d) ==
    IF Len(d) <= 2 THEN 0
    ELSE d[Len(d) - 1].n * UnitSeconds[d[Len(d)].k]
           + CompactSeconds(SubSeq(d, 1, Len(d) - 2))

DurationDone == tool = "_parse_duration" /\ pc = "done"

(* C16: _parse_duration returns hours*3600 + minutes*60 + seconds for a    *)
(* compact duration, a missing component counting as 0; it returns 0 for   *)
(* an encoding without any component and for every empty, absent or        *)
(* unparsable input, and it never raises.                                  *)
C16_ParseDuration ==
    DurationDone =>
        /\ out.kind = "return"
        /\ out.value = IF IsCompact(args.iso_duration)
                       THEN CompactSeconds(args.iso_duration) ELSE 0

(* what does hold: the value of a compact duration, and 0 for a string     *)
(* that does not begin with "PT"                                           *)
C16_CompactOrNoPrefix ==
    DurationDone =>
        /\ out.kind = "return"
        /\ IsCompact(args.iso_duration)
             => out.value = CompactSeconds(args.iso_duration)
        /\ (Len(args.iso_duration) < 2 \/ args.iso_duration[1].k # "P"
              \/ args.iso_duration[2].k # "T") => out.value = 0

(* "PT3S2M", seconds before minutes, is read as 3 seconds *)
C16_Witness ==
    /\ DurationDone
    /\ args.iso_duration =
         <<Tok("P"), Tok("T"), Digits(3), Tok("S"), Digits(2), Tok("M")>>
    /\ ~IsCompact(args.iso_duration)
    /\ out.value = 3

-----------------------------------------------------------------------------
(* The server with several invocations submitted.  asyncio runs the        *)
(* handlers on one thread: a handler that has started keeps the event loop *)
(* until it returns or reaches an await.  Each invocation is a             *)
(* get_channel_overview request; tool, args, pc and out are functions of   *)
(* the invocation, loc holds the invocation that has the loop, the frame   *)
(* of locals of each invocation and the order of the steps taken, and the  *)
(* calls are logged with the invocation that made them.                    *)

MaxInvocations == 2

Invocations == 1..MaxInvocations

(* whether the event loop may switch to another handler at this position   *)
(* of call_tool: its body, _dispatch and the functions of main.py contain  *)
(* no await (requests is a blocking client)                                *)
YieldsAtCalls(position) == position = "resolved"

Yields(position) == FALSE

ServerUrls == { HandleUrl, DirectUrl(FetchChannel), BadUrl }

ServerRawChannels ==
    { RawChannel(id, Num(1), v, Junk) : id \in ChannelIds, v \in {Absent, Num(1)} }

LookupResponses(channel_id) ==
    Failures \cup { Ok(<<>>) }
      \cup { Ok(<<c>>) : c \in { x \in ServerRawChannels : x.id = channel_id } }

InitServer ==
    /\ tool = [i \in Invocations |-> "get_channel_overview"]
    /\ args \in [Invocations -> { [channel_url |-> u] : u \in ServerUrls }]
    /\ pc = [i \in Invocations |-> "queued"]
    /\ loc = [ running |-> 0, trace |-> <<>>,
               frames |-> [i \in Invocations |-> <<>>] ]
    /\ calls = <<>>
    /\ out = [i \in Invocations |-> Running]

Tagged(i, cs) == [k \in 1..Len(cs) |-> [by |-> i, call |-> cs[k]]]

(* who has the loop after invocation i has moved to `position' *)
LoopAfter(i, position) ==
    IF position = "done" \/ Yields(position) THEN 0 ELSE i

(* call_tool starts: _dispatch, get_channel_overview, resolve_channel_id *)
ServeResolve(i) ==
    /\ pc[i] = "queued" /\ loc.running \in {0, i}
    /\ \E r1 \in ResolveResponsesOne :
         LET res  == resolve_channel_id(args[i].channel_url, r1)
             next == IF res.out.kind = "raise" THEN "done" ELSE "resolved"
         IN  /\ calls' = calls \o Tagged(i, res.calls)
             /\ pc' = [pc EXCEPT ![i] = next]
             /\ out' = [out EXCEPT ![i] =
                          IF res.out.kind = "raise"
                          THEN call_tool(tool[i], args[i], res.out) ELSE @]
             /\ loc' = [ running |-> LoopAfter(i, next),
                         trace |-> Append(loc.trace, i),
                         frames |-> [loc.frames EXCEPT ![i] =
                                       IF res.out.kind = "raise" THEN @
                                       ELSE [channel_id |-> res.out.value]] ]
    /\ UNCHANGED <<tool, args>>

(* the channels lookup, the returned dict, and call_tool's result *)
ServeLookup(i) ==
    /\ pc[i] = "resolved" /\ loc.running \in {0, i}
    /\ \E r2 \in LookupResponses(loc.frames[i].channel_id) :
         LET channel_id == loc.frames[i].channel_id
             g == get("channels", [part |-> "snippet,statistics", id |-> channel_id], r2)
             core == IF g.out.kind = "raise" THEN g.out
                     ELSE IF g.out.value = <<>>
                     THEN Raise("ValueError", "No data returned for channel")
                     ELSE Return(ChannelRecord(channel_id, g.out.value[1]))
         IN  /\ calls' = calls \o Tagged(i, <<g.call>>)
             /\ out' = [out EXCEPT ![i] = call_tool(tool[i], args[i], core)]
    /\ pc' = [pc EXCEPT ![i] = "done"]
    /\ loc' = [loc EXCEPT !.running = LoopAfter(i, "done"),
                          !.trace = Append(loc.trace, i)]
    /\ UNCHANGED <<tool, args>>

NextServer == \E i \in Invocations : ServeResolve(i) \/ ServeLookup(i)

SpecServer == InitServer /\ [][NextServer]_vars

-----------------------------------------------------------------------------
(* The claim about several invocations.                                    *)

(* the steps of an invocation are consecutive in the order of all steps *)
Contiguous(trace) ==
    \A p, q, r \in 1..Len(trace) :
        (p < q /\ q < r /\ trace[p] = trace[r]) => trace[q] = trace[p]

(* the answers the upstream gave to the calls of invocation i *)
OwnAnswers(i) ==
    LET own == SelectSeq(calls, LAMBDA c : c.by = i)
    IN  [k \in 1..Len(own) |-> [status |-> own[k].call.status,
                                body |-> own[k].call.body]]

(* what get_channel_overview gives for the arguments of invocation i and   *)
(* the answers to its own calls                                            *)
OwnResult(i) ==
    LET answers == OwnAnswers(i)
        direct  == DirectMatch(rstrip(args[i].channel_url))
        r1 == IF ~direct /\ Len(answers) >= 1 THEN answers[1] ELSE Ok(<<>>)
        r2 == IF direct /\ Len(answers) >= 1 THEN answers[1]
              ELSE IF Len(answers) >= 2 THEN answers[2] ELSE Ok(<<>>)
    IN  call_tool(tool[i], args[i],
                  get_channel_overview(args[i].channel_url, r1, r2).out)

(* C17: when several invocations are submitted, each runs from its first   *)
(* step to its result without interleaving with a step of another, and the *)
(* result of an invocation depends only on its own arguments and on the    *)
(* upstream answers to its own calls.                                      *)
C17_RunToCompletion ==
    /\ Contiguous(loc.trace)
    /\ \A i \in Invocations :
         /\ pc[i] \notin {"queued", "done"} => loc.running = i
         /\ pc[i] = "done" => out[i] = OwnResult(i)

(* two invocations of two calls each, both finished, one with an overview  *)
(* and the other with an upstream failure                                  *)
C17_Witness ==
    /\ \A i \in Invocations : pc[i] = "done"
    /\ Len(loc.trace) >= 4
    /\ Len(OwnAnswers(1)) = 2 /\ Len(OwnAnswers(2)) = 2
    /\ out[1].value.isError = FALSE
    /\ out[2].value.isError = TRUE

-----------------------------------------------------------------------------
(* Tool 4: get_video_comments.                                             *)

CommentCap == 2

(* the comment threads of the video, in relevance order: the upstream      *)
(* serves them page by page                                                *)
Threads ==
    << [text |-> <<Lexeme("good", FALSE), Lexeme("video", FALSE)>>, likeCount |-> Num(1)],
       [text |-> <<Lexeme("nice", TRUE)>>, likeCount |-> Junk],
       [text |-> <<>>, likeCount |-> Absent],
       [text |-> <<Lexeme("the", FALSE), Lexeme("good", TRUE)>>, likeCount |-> Num(2)] >>

(* comments.append({...}) for one item of a commentThreads answer *)
CommentRecord(item) ==
    [ author |-> "x", text |-> item.text,
      like_count |-> _safe_int(DictGet(item.likeCount, Num(0))),
      published_at |-> "p" ]

AppendComments(comments, items) ==
    comments \o [k \in 1..Len(items) |-> CommentRecord(items[k])]

(* the params of one commentThreads request *)
CommentParams(video_id, batch_size, next_page_token) ==
    [ part |-> "snippet", videoId |-> video_id, maxResults |-> batch_size,
      order |-> "relevance", pageToken |-> next_page_token ]

(* a page after `served' threads were served: the next threads, at most    *)
(* CommentCap of them (possibly more than asked for), and a token or none  *)
CommentPageResponses(served) ==
    Failures \cup
    { Ok([items |-> SubSeq(Threads, served + 1, served + k), nextPageToken |-> t]) :
        k \in 0..Min(CommentCap, Len(Threads) - Min(served, Len(Threads))),
        t \in {None, "tok"} }

(* videos?part=statistics&id=...: the comment count of the video, if found *)
CommentCountResponses ==
    Failures \cup { Ok(<<>>), Ok(<<[commentCount |-> Num(4)]>>),
                    Ok(<<[commentCount |-> Absent]>>) }

CommentsResult(video_id, total_count, comments) ==
    [ video_id |-> video_id,
      total_comment_count |-> total_count,
      returned_comment_count |-> Len(comments),
      comments |-> comments ]

-----------------------------------------------------------------------------
(* The two page loops on their own: the while loop of                      *)
(* _fetch_videos_for_channel and that of get_video_comments, entered with  *)
(* empty accumulators.  Here `calls' holds the request of the current      *)
(* iteration only, so that a loop that repeats itself is a cycle of        *)
(* states; loc.added is the number of entries the last page contributed.   *)

InitPageLoop ==
    /\ tool \in {"_fetch_videos_for_channel", "get_video_comments"}
    /\ args \in { [limit |-> l] : l \in 0..MaxLimit }
    /\ pc = "while"
    /\ loc = IF tool = "get_video_comments"
             THEN [ video_id |-> "a", total_count |-> 0, comments |-> <<>>,
                    next_page_token |-> None, added |-> 0 ]
             ELSE [ uploads_playlist_id |-> "UU", video_ids |-> <<>>,
                    next_page_token |-> None, added |-> 0 ]
    /\ calls = <<>>
    /\ out = Running

(* `while len(video_ids) < limit:' and one iteration *)
LoopFetchPage ==
    /\ tool = "_fetch_videos_for_channel" /\ pc = "while"
    /\ IF ~(Len(loc.video_ids) < args.limit)
       THEN /\ pc' = "done" /\ out' = Return(loc.video_ids)
            /\ UNCHANGED <<loc, calls>>
       ELSE \E resp \in PageResponses(loc.video_ids) :
              LET batch_size == PageSize(PageCap, args.limit, Len(loc.video_ids))
                  g == get("playlistItems",
                           PageParams(loc.uploads_playlist_id, batch_size,
                                      loc.next_page_token),
                           resp)
                  video_ids == CollectIds(loc.video_ids, g.out.value.items)
                  next_page_token == g.out.value.nextPageToken
              IN  /\ calls' = <<g.call>>
                  /\ IF g.out.kind = "raise"
                     THEN out' = g.out /\ pc' = "done" /\ loc' = loc
                     ELSE /\ loc' = [loc EXCEPT
                                       !.video_ids = video_ids,
                                       !.next_page_token = next_page_token,
                                       !.added = Len(video_ids) - Len(loc.video_ids)]
                          /\ IF next_page_token = None \/ Len(video_ids) >= args.limit
                             THEN out' = Return(video_ids) /\ pc' = "done"
                             ELSE out' = out /\ pc' = "while"
    /\ UNCHANGED <<tool, args>>

(* `while len(comments) < limit:' and one iteration *)
LoopCommentsPage ==
    /\ tool = "get_video_comments" /\ pc = "while"
    /\ IF ~(Len(loc.comments) < args.limit)
       THEN /\ pc' = "done"
            /\ out' = Return(CommentsResult(loc.video_id, loc.total_count,
                                            loc.comments))
            /\ UNCHANGED <<loc, calls>>
       ELSE \E resp \in CommentPageResponses(Len(loc.comments)) :
              LET batch_size == PageSize(CommentCap, args.limit, Len(loc.comments))
                  g == get("commentThreads",
                           CommentParams(loc.video_id, batch_size,
                                         loc.next_page_token),
                           resp)
                  comments == AppendComments(loc.comments, g.out.value.items)
                  next_page_token == g.out.value.nextPageToken
              IN  /\ calls' = <<g.call>>
                  /\ IF g.out.kind = "raise"
                     THEN out' = g.out /\ pc' = "done" /\ loc' = loc
                     ELSE /\ loc' = [loc EXCEPT
                                       !.comments = comments,
                                       !.next_page_token = next_page_token,
                                       !.added = Len(comments) - Len(loc.comments)]
                          /\ IF next_page_token = None \/ Len(comments) >= args.limit
                             THEN /\ pc' = "done"
                                  /\ out' = Return(CommentsResult(loc.video_id,
                                                     loc.total_count, comments))
                             ELSE out' = out /\ pc' = "while"
    /\ UNCHANGED <<tool, args>>

NextPageLoop == LoopFetchPage \/ LoopCommentsPage

(* a loop that can take an iteration does take it: the iteration is a      *)
(* blocking call that returns or times out                                 *)
SpecPageLoop == InitPageLoop /\ [][NextPageLoop]_vars /\ WF_vars(NextPageLoop)

-----------------------------------------------------------------------------
(* The claim about termination of the page loops.                          *)

(* C18: the page loops of _fetch_videos_for_channel and get_video_comments *)
(* terminate for every limit and every sequence of upstream page           *)
(* responses: a loop stops or continues with the returned token, and it    *)
(* cannot continue forever.                                                *)
C18_Terminates == <>(pc = "done")

(* what does hold: a loop ends unless the upstream keeps answering with    *)
(* pages that carry a token and contribute no entry                        *)
C18_EndsUnlessEmptyPages ==
    (<>(pc = "done")) \/ ([]<>(pc = "while" /\ loc.added = 0
                                 /\ loc.next_page_token # None))

(* the loop is back at its test after a page with a token and no entry *)
C18_Witness ==
    /\ pc = "while"
    /\ Len(calls) = 1 /\ calls[1].status = "ok"
    /\ calls[1].body.items = <<>>
    /\ calls[1].body.nextPageToken = "tok"
    /\ loc.added = 0 /\ loc.next_page_token = "tok"

-----------------------------------------------------------------------------
(* get_video_comments as steps: one external call per step.                *)

InitComments ==
    /\ tool = "get_video_comments"
    /\ args \in { [video_id |-> "a", limit |-> l] : l \in 0..MaxLimit }
    /\ pc = "start"
    /\ loc = <<>>
    /\ calls = <<>>
    /\ out = Running

(* the videos lookup for the comment count, and the first loop test *)
CommentsVideo ==
    /\ tool = "get_video_comments" /\ pc = "start"
    /\ \E resp \in CommentCountResponses :
         LET g == get("videos", [part |-> "statistics", id |-> args.video_id], resp)
             video_items == g.out.value
             total_count ==
                 IF video_items # <<>>
                 THEN _safe_int(DictGet(video_items[1].commentCount, Num(0)))
                 ELSE 0
         IN  /\ calls' = Append(calls, g.call)
             /\ IF g.out.kind = "raise"
                THEN out' = g.out /\ pc' = "done" /\ loc' = loc
                ELSE /\ loc' = [ video_id |-> args.video_id,
                                 total_count |-> total_count,
                                 comments |-> <<>>,
                                 next_page_token |-> None ]
                     /\ IF 0 < args.limit
                        THEN out' = out /\ pc' = "page"
                        ELSE /\ pc' = "done"
                             /\ out' = Return(CommentsResult(args.video_id,
                                                             total_count, <<>>))
    /\ UNCHANGED <<tool, args>>

ThreadPagesSoFar ==
    Cardinality({ k \in 1..Len(calls) : calls[k].ep = "commentThreads" })

(* one iteration of the while loop, and the return when it ends *)
CommentsPage ==
    /\ tool = "get_video_comments" /\ pc = "page"
    /\ ThreadPagesSoFar < MaxPages
    /\ \E resp \in CommentPageResponses(Len(loc.comments)) :
         LET batch_size == PageSize(CommentCap, args.limit, Len(loc.comments))
             g == get("commentThreads",
                      CommentParams(loc.video_id, batch_size, loc.next_page_token),
                      resp)
             comments == AppendComments(loc.comments, g.out.value.items)
             next_page_token == g.out.value.nextPageToken
         IN  /\ calls' = Append(calls, g.call)
             /\ IF g.out.kind = "raise"
                THEN out' = g.out /\ pc' = "done" /\ loc' = loc
                ELSE /\ loc' = [loc EXCEPT !.comments = comments,
                                           !.next_page_token = next_page_token]
                     /\ IF next_page_token = None \/ Len(comments) >= args.limit
                        THEN /\ pc' = "done"
                             /\ out' = Return(CommentsResult(loc.video_id,
                                                loc.total_count, comments))
                        ELSE out' = out /\ pc' = "page"
    /\ UNCHANGED <<tool, args>>

(* an invocation of either function with a page loop *)
InitPages == InitFetch \/ InitComments

NextPages ==
    \/ FetchResolve \/ FetchUploads \/ FetchPage \/ FetchBatch
    \/ CommentsVideo \/ CommentsPage

SpecPages == InitPages /\ [][NextPages]_vars

-----------------------------------------------------------------------------
(* The claim about the page requests.                                      *)

(* the page requests of this invocation, in the order issued *)
PageCalls ==
    SelectSeq(calls, LAMBDA c : c.ep \in {"playlistItems", "commentThreads"})

CapOf == IF tool = "get_video_comments" THEN CommentCap ELSE PageCap

(* the entries one answered page adds to the accumulator *)
AddedBy(c) ==
    IF c.status # "ok" THEN 0
    ELSE IF c.ep = "commentThreads" THEN Len(c.body.items)
    ELSE Cardinality({ k \in 1..Len(c.body.items) : c.body.items[k] # None })

RECURSIVE CollectedBefore(_)
CollectedBefore(k) ==
    IF k <= 1 THEN 0 ELSE CollectedBefore(k - 1) + AddedBy(PageCalls[k - 1])

(* the accumulator of the running loop *)
CollectedNow ==
    IF tool = "get_video_comments" THEN Len(loc.comments) ELSE Len(loc.video_ids)

InLoop == pc \in {"page", "batch"} \/ (pc = "done" /\ PageCalls # <<>>)

WithinRequest(c) == c.status = "ok" => Len(c.body.items) <= c.params.maxResults

(* C19: every page request asks for exactly min(cap, limit - collected)    *)
(* items; a further page request is issued only if the previous answer     *)
(* carried a next-page token and collected < limit (and it carries that    *)
(* token); and when every page holds at most the requested number of       *)
(* items, the number of collected items never exceeds limit.               *)
C19_PageRequests ==
    /\ \A k \in 1..Len(PageCalls) :
         LET asked == PageCalls[k].params.maxResults
             room == args.limit - CollectedBefore(k)
         IN  /\ asked <= CapOf /\ asked <= room
             /\ asked = CapOf \/ asked = room
             /\ k > 1 =>
                  /\ PageCalls[k - 1].status = "ok"
                  /\ PageCalls[k - 1].body.nextPageToken # None
                  /\ PageCalls[k].params.pageToken = PageCalls[k - 1].body.nextPageToken
                  /\ CollectedBefore(k) < args.limit
    /\ InLoop =>
         /\ CollectedNow = CollectedBefore(Len(PageCalls) + 1)
         /\ (\A k \in 1..Len(PageCalls) : WithinRequest(PageCalls[k]))
              => CollectedNow <= args.limit

(* the limit can be exceeded when a page holds more than was asked for *)
C19_NeverOverLimit == InLoop => CollectedNow <= args.limit

(* a second page was asked for less than a full page, and the loop ended   *)
(* with exactly limit entries                                              *)
C19_Witness ==
    /\ pc \in {"batch", "done"} /\ Len(PageCalls) = 2
    /\ PageCalls[2].status = "ok"
    /\ PageCalls[2].params.maxResults < CapOf
    /\ PageCalls[2].params.maxResults = args.limit - CollectedBefore(2)
    /\ CollectedBefore(2) > 0
    /\ \A k \in 1..2 : WithinRequest(PageCalls[k])
    /\ CollectedNow = args.limit

-----------------------------------------------------------------------------
(* The claim about the batched videos lookups.                             *)

BatchIds == [k \in 1..Len(LookupCalls) |-> LookupCalls[k].params.id]

IsPrefix(s, t) == Len(s) <= Len(t) /\ s = SubSeq(t, 1, Len(s))

(* the k-th stretch of at most BatchCap collected identifiers *)
Stretch(k) ==
    SubSeq(loc.video_ids, (k - 1) * BatchCap + 1,
           IF k * BatchCap <= Len(loc.video_ids) THEN k * BatchCap
           ELSE Len(loc.video_ids))

(* C20: in _fetch_videos_for_channel every batched videos lookup carries   *)
(* between 1 and 50 identifiers, a batch is sent only after the previous   *)
(* one has answered (and after the last page), and the batches in issue    *)
(* order concatenate to exactly the collected identifiers, each occurrence *)
(* being sent in exactly one batch.                                        *)
C20_Batches ==
    /\ \A k \in 1..Len(BatchIds) :
         /\ 1 <= Len(BatchIds[k]) /\ Len(BatchIds[k]) <= BatchCap
         /\ BatchIds[k] = Stretch(k)
         /\ k < Len(BatchIds) => LookupCalls[k].status = "ok"
    /\ \A j, k \in 1..Len(calls) :
         (calls[j].ep = "videos" /\ calls[k].ep = "playlistItems") => k < j
    /\ BatchIds # <<>> => IsPrefix(Flatten(BatchIds), loc.video_ids)
    /\ pc = "batch" => Len(Flatten(BatchIds)) = loc.i
    /\ FetchReturned => Flatten(BatchIds) = loc.video_ids

(* three identifiers were collected and sent as a full batch and a rest *)
C20_Witness ==
    /\ FetchReturned
    /\ Len(loc.video_ids) = BatchCap + 1
    /\ Len(BatchIds) = 2
    /\ Len(BatchIds[1]) = BatchCap /\ Len(BatchIds[2]) = 1

-----------------------------------------------------------------------------
(* Tool 5: get_video_transcript, and the severity call_tool logs at.       *)

(* what YouTubeTranscriptApi().fetch(video_id).to_raw_data() ends with: a  *)
(* list of segments (each the words of its text), or an exception of the   *)
(* library or of the network under it; po_token tells whether the text of  *)
(* the exception contains "PoToken"                                        *)
TranscriptFailure(exc, po_token) ==
    [status |-> exc, body |-> <<>>, po_token |-> po_token]

TranscriptFailures ==
    { TranscriptFailure("ConnectionError", FALSE),
      TranscriptFailure("TranscriptsDisabled", FALSE),
      TranscriptFailure("RequestBlocked", TRUE) }

MaxSegments == 3

SegmentTexts == { <<>>, <<"hello">>, <<"hello", "world">> }

TranscriptAnswers ==
    TranscriptFailures \cup
    { [status |-> "ok", body |-> b, po_token |-> FALSE] :
        b \in SeqsUpTo(SegmentTexts, MaxSegments) }

(* " ".join(segments).strip() as the words of the text *)
RECURSIVE JoinSegments(_)
JoinSegments(raw) ==
    IF raw = <<>> THEN <<>> ELSE Head(raw) \o JoinSegments(Tail(raw))

get_video_transcript(video_id, fetched) ==
    IF fetched.status # "ok"
    THEN IF fetched.po_token
         THEN Raise("ValueError", "YouTube requires bot-verification for video")
         ELSE Raise("ValueError", "Could not fetch transcript for")
    ELSE LET raw == fetched.body
             transcript_text == JoinSegments(raw)
         IN  Return([ video_id |-> video_id,
                      transcript_text |-> transcript_text,
                      word_count |-> Len(transcript_text),
                      segment_count |-> Len(raw) ])

(* the level of the record call_tool logs when the call ends: nothing      *)
(* beyond the info record of its entry on success, logger.warning in       *)
(* `except ValueError', logger.error in `except Exception'                 *)
LogLevel(name, arguments, core) ==
    LET result == _dispatch(name, arguments, core)
    IN  IF result.kind = "return" THEN "info"
        ELSE IF result.exc = "ValueError" THEN "warning"
        ELSE "error"

InitSeverity ==
    /\ tool \in {"get_video_transcript", "get_channel_overview"}
    /\ args \in { [video_id |-> v] : v \in {"a", "b"} }
                  \cup { [channel_url |-> u] : u \in CompareUrls }
                  \cup { [limit |-> 5] }
    /\ pc = "start"
    /\ loc = <<>>
    /\ calls = <<>>
    /\ out = Running

(* call_tool("get_video_transcript", args); loc keeps what the core        *)
(* function ended with, whether a collaborator failed under it, and the    *)
(* level logged                                                            *)
CallTranscript ==
    /\ tool = "get_video_transcript" /\ pc = "start"
    /\ IF "video_id" \notin DOMAIN args
       THEN /\ loc' = [ core |-> _dispatch(tool, args, Running),
                        collaborator_failed |-> FALSE,
                        level |-> LogLevel(tool, args, Running) ]
            /\ out' = call_tool(tool, args, Running)
       ELSE \E fetched \in TranscriptAnswers :
              LET core == get_video_transcript(args.video_id, fetched) IN
              /\ loc' = [ core |-> core,
                          collaborator_failed |-> fetched.status # "ok",
                          level |-> LogLevel(tool, args, core) ]
              /\ out' = call_tool(tool, args, core)
    /\ pc' = "done"
    /\ UNCHANGED <<tool, args, calls>>

(* call_tool("get_channel_overview", args) *)
CallOverview ==
    /\ tool = "get_channel_overview" /\ pc = "start"
    /\ IF "channel_url" \notin DOMAIN args
       THEN /\ loc' = [ core |-> _dispatch(tool, args, Running),
                        collaborator_failed |-> FALSE,
                        level |-> LogLevel(tool, args, Running) ]
            /\ out' = call_tool(tool, args, Running)
            /\ calls' = calls
       ELSE \E r1 \in ResolveResponsesOne :
            \E r2 \in OverviewResponses(args.channel_url, r1) :
              LET r == get_channel_overview(args.channel_url, r1, r2) IN
              /\ calls' = r.calls
              /\ loc' = [ core |-> r.out,
                          collaborator_failed |->
                              \E k \in 1..Len(r.calls) : r.calls[k].status # "ok",
                          level |-> LogLevel(tool, args, r.out) ]
              /\ out' = call_tool(tool, args, r.out)
    /\ pc' = "done"
    /\ UNCHANGED <<tool, args>>

NextSeverity == CallTranscript \/ CallOverview

SpecSeverity == InitSeverity /\ [][NextSeverity]_vars

-----------------------------------------------------------------------------
(* The claim about the classification of failures.                         *)

(* the core function ended with a failure *)
CoreFailed == pc = "done" /\ loc.core.kind = "raise"

(* C21: the dispatch boundary classifies every failure by fault: every     *)
(* InvalidInput or NotFound failure is logged at warning severity, every   *)
(* UpstreamError, a failure of the transcript collaborator included, and   *)
(* every unexpected failure at error severity; no core function catches a  *)
(* collaborator failure and raises it again as a caller-fault error.       *)
C21_FaultSeverity ==
    CoreFailed =>
        /\ (IsInvalidInput(loc.core) \/ IsNotFound(loc.core)) => loc.level = "warning"
        /\ loc.collaborator_failed =>
             /\ loc.level = "error"
             /\ loc.core.exc # "ValueError"
        /\ loc.core.exc # "ValueError" => loc.level = "error"

(* what does hold: the same classification for every tool but the          *)
(* transcript tool                                                         *)
C21_ExceptTranscript ==
    (CoreFailed /\ tool # "get_video_transcript") =>
        /\ (IsInvalidInput(loc.core) \/ IsNotFound(loc.core)) => loc.level = "warning"
        /\ loc.collaborator_failed =>
             /\ loc.level = "error"
             /\ loc.core.exc # "ValueError"
        /\ loc.core.exc # "ValueError" => loc.level = "error"

(* the transcript collaborator failed with a network error and the call    *)
(* was logged as a warning, with the payload of a caller fault             *)
C21_Witness ==
    /\ pc = "done" /\ tool = "get_video_transcript"
    /\ loc.collaborator_failed
    /\ loc.core = Raise("ValueError", "Could not fetch transcript for")
    /\ loc.level = "warning"
    /\ out.value.isError = TRUE
    /\ out.value.content[1].text.json.error = <<"Could not fetch transcript for">>

-----------------------------------------------------------------------------
(* The claims about get_upload_schedule on lists with bad timestamps.      *)

ScheduleFetched == ScheduleDone /\ "fetched" \in DOMAIN loc

(* the records whose published_at parses, in their order *)
OnlyParseable(videos) == SelectSeq(videos, LAMBDA v : v.published_at.iso)

RECURSIVE SumCounts(_)
SumCounts(counter) ==
    IF counter = <<>> THEN 0 ELSE Head(counter).n + SumCounts(Tail(counter))

(* the result is the one of the parseable records alone, but for the total *)
SkipsUnparsable(videos, result) ==
    /\ result.total_videos_analyzed = Len(videos)
    /\ SumCounts(result.posts_by_day) = Parseable(videos)
    /\ SumCounts(result.posts_by_hour) = Parseable(videos)
    /\ result = [UploadSchedule(OnlyParseable(videos))
                   EXCEPT !.total_videos_analyzed = Len(videos)]

(* the timestamps that parse all carry an offset, or none does *)
SameKind(videos) ==
    \A i, j \in 1..Len(videos) :
        (videos[i].published_at.iso /\ videos[j].published_at.iso)
            => videos[i].published_at.offset = videos[j].published_at.offset

(* C22: get_upload_schedule never fails because of a published_at: for     *)
(* every non-empty video list it returns, a video with an unparsable       *)
(* timestamp is skipped from all buckets and from the gap computation but  *)
(* counted in total_videos_analyzed, and the sum of posts_by_day equals    *)
(* the sum of posts_by_hour equals the number of parseable timestamps; on  *)
(* an empty list the tool fails with InvalidInput.                         *)
C22_BadTimestampsSkipped ==
    ScheduleFetched =>
        IF loc.fetched = <<>> THEN IsInvalidInput(out)
        ELSE /\ out.kind = "return"
             /\ SkipsUnparsable(loc.fetched, out.value)

(* what does hold: the same for the lists whose parseable timestamps are   *)
(* all with offset or all without                                          *)
C22_SameKindSkipped ==
    (ScheduleFetched /\ SameKind(loc.fetched)) =>
        IF loc.fetched = <<>> THEN IsInvalidInput(out)
        ELSE /\ out.kind = "return"
             /\ SkipsUnparsable(loc.fetched, out.value)

(* one timestamp does not parse, one parses with the Z and one without:    *)
(* the request fails with the TypeError of sorted()                        *)
C22_Witness ==
    /\ ScheduleFetched /\ Len(loc.fetched) = 3
    /\ Parseable(loc.fetched) = 2 /\ ~SameKind(loc.fetched)
    /\ out.kind = "raise" /\ out.exc = "TypeError"

(* an unparsable timestamp between two dated uploads is skipped *)
C22_SkippedWitness ==
    /\ ScheduleFetched /\ Len(loc.fetched) = 3
    /\ Parseable(loc.fetched) = 2 /\ SameKind(loc.fetched)
    /\ out.kind = "return"
    /\ out.value.total_videos_analyzed = 3
    /\ SumCounts(out.value.posts_by_day) = 2

-----------------------------------------------------------------------------
(* The claim about the consistency score.                                  *)

(* the whole-day gaps between the consecutive sorted parseable timestamps *)
GapsOf(videos) == Gaps(sorted(Tally(videos).timestamps))

(* With n gaps of sum s and sum of squares ss,                             *)
(* (stdev(gaps) / max(mean(gaps), 1))^2 = RatioNum / RatioDen.             *)
RatioNum(gaps) ==
    LET n == Len(gaps)
        s == SumOf(gaps)
        ss == SumOfSquares(gaps)
    IN  IF s >= n THEN (n * ss - s * s) * n ELSE n * ss - s * s

RatioDen(gaps) ==
    LET n == Len(gaps)
        s == SumOf(gaps)
    IN  IF s >= n THEN (n - 1) * s * s ELSE n * (n - 1)

(* y tenths is exactly max(0, 100 - (stdev / max(mean, 1)) * 50) *)
ExactScore(y, gaps) ==
    \/ /\ y = 0
       /\ 250000 * RatioNum(gaps) >= 1000 * 1000 * RatioDen(gaps)
    \/ /\ y \in 0..1000
       /\ (1000 - y) * (1000 - y) * RatioDen(gaps) = 250000 * RatioNum(gaps)

(* y tenths is that value rounded to one decimal *)
RoundedScore(y, gaps) ==
    LET d == 1000 - y
        q4 == 4 * 250000 * RatioNum(gaps)
    IN  /\ y \in 0..1000
        /\ y > 0 => /\ d = 0 \/ (2 * d - 1) * (2 * d - 1) * RatioDen(gaps) <= q4
                    /\ q4 <= (2 * d + 1) * (2 * d + 1) * RatioDen(gaps)
        /\ y = 0 => q4 >= 1999 * 1999 * RatioDen(gaps)

-----------------------------------------------------------------------------
(* The claim about exactly two parseable timestamps.                       *)

(* the whole days between the two parseable timestamps of the list *)
TwoStampGap(videos) ==
    LET two == OnlyParseable(videos)
        a == two[1].published_at.day * 24 + two[1].published_at.hour
        b == two[2].published_at.day * 24 + two[2].published_at.hour
    IN  IF a <= b THEN (b - a) \div 24 ELSE (a - b) \div 24

(* avg_days_between_uploads is the gap and the score is 0.0 *)
GapAndZeroScore(videos, o) ==
    /\ o.kind = "return"
    /\ o.value.consistency_score_pct = 0
    /\ o.value.avg_days_between_uploads = 10 * TwoStampGap(videos)

(* C24: get_upload_schedule with exactly 2 parseable timestamps returns    *)
(* consistency_score_pct = 0.0 while avg_days_between_uploads is the       *)
(* actual gap in days: the failure of the standard deviation of a single   *)
(* gap is swallowed inside the tool and the invocation returns a result.   *)
C24_TwoTimestamps ==
    (ScheduleFetched /\ Parseable(loc.fetched) = 2)
        => GapAndZeroScore(loc.fetched, out)

(* what does hold: the same for two timestamps both with an offset or both *)
(* without                                                                 *)
C24_TwoOfAKind ==
    (ScheduleFetched /\ Parseable(loc.fetched) = 2 /\ SameKind(loc.fetched))
        => GapAndZeroScore(loc.fetched, out)

(* two uploads, one dated with the Z and one without: no result *)
C24_Witness ==
    /\ ScheduleFetched /\ Len(loc.fetched) = 2
    /\ loc.fetched[1].published_at = IsoString(0, 9)
    /\ loc.fetched[2].published_at = NaiveString(5, 9)
    /\ out = Raise("TypeError", "can't compare offset-naive and offset-aware datetimes")

(* two uploads nine days apart: the gap is returned and the score is 0.0 *)
C24_GapWitness ==
    /\ ScheduleFetched /\ Len(loc.fetched) = 2
    /\ Parseable(loc.fetched) = 2 /\ SameKind(loc.fetched)
    /\ out.kind = "return"
    /\ out.value.avg_days_between_uploads = 80
    /\ out.value.consistency_score_pct = 0

-----------------------------------------------------------------------------
(* The claim about the range of the SEO checks.                            *)

SeoStatuses == {"poor", "ok", "good", "great"}

(* C25: every check produced by get_video_seo_score, for every title,      *)
(* description, tag list and thumbnail set, has a score in [0, 100] and a  *)
(* status that is one of poor, ok, good, great; consequently overall_score *)
(* is always in [0, 100].                                                  *)
C25_ChecksInRange ==
    SeoDone =>
        /\ \A name \in DOMAIN out.value.checks :
             /\ out.value.checks[name].score \in 0..100
             /\ out.value.checks[name].status \in SeoStatuses
        /\ out.value.overall_score \in 0..100

(* a long description with a link and a chapter mark under a 71-character  *)
(* title: every check at its best but the title's, overall (60 + 400) / 5  *)
C25_Witness ==
    /\ SeoDone
    /\ out.value.checks.description_quality = Check(100, "great",
           <<"has links", "has chapters/timestamps">>)
    /\ out.value.checks.description_length.score = 100
    /\ out.value.checks.tag_count.score = 100
    /\ out.value.checks.thumbnail.score = 100
    /\ out.value.checks.title_length = Check(60, "ok", <<71, " chars (a bit long, ideal: 40-70)">>)
    /\ out.value.overall_score = 92

-----------------------------------------------------------------------------
(* Tool 2: get_channel_videos, and the five analytics tools side by side.  *)
(* In each, loc.fetched is the list as _fetch_videos_for_channel returned  *)
(* it and loc.videos the same list object as the tool leaves it.           *)

(* {k: v for k, v in video.items() if k != "tags"} *)
WithoutTags(video) == [k \in DOMAIN video \ {"tags"} |-> video[k]]

ChannelVideos(videos) == [i \in 1..Len(videos) |-> WithoutTags(videos[i])]

GetChannelVideos ==
    /\ tool = "get_channel_videos" /\ pc = "start"
    /\ \E fetched \in FetchOutcomes(FetchRawVideos, MaxVideos) :
         IF fetched.kind = "raise"
         THEN out' = fetched /\ loc' = loc
         ELSE /\ loc' = [fetched |-> fetched.value, videos |-> fetched.value]
              /\ out' = Return(ChannelVideos(fetched.value))
    /\ pc' = "done"
    /\ UNCHANGED <<tool, args, calls>>

InitAnalytics ==
    \/ /\ tool = "get_channel_videos"
       /\ args = [channel_url |-> DirectUrl(FetchChannel), limit |-> MaxVideos]
       /\ pc = "start" /\ loc = <<>> /\ calls = <<>> /\ out = Running
    \/ InitVideos /\ tool # "compare_videos"
    \/ InitSchedule
    \/ InitTags

NextAnalytics ==
    \/ GetChannelVideos \/ GetTopVideos \/ GetUploadSchedule
    \/ GetTagAnalysis \/ GetEngagementStats

SpecAnalytics == InitAnalytics /\ [][NextAnalytics]_vars

-----------------------------------------------------------------------------
(* The claim about records after the normalizer.                           *)

AnalyticsFetched == pc = "done" /\ "fetched" \in DOMAIN loc

(* C26: a VideoRecord is not changed after the normalizer has created it:  *)
(* no analytics function (get_channel_videos, get_top_videos,              *)
(* get_upload_schedule, get_tag_analysis, get_engagement_stats) adds,      *)
(* removes or rewrites a field of a record returned by                     *)
(* _fetch_videos_for_channel.                                              *)
C26_RecordsUnchanged == AnalyticsFetched => loc.videos = loc.fetched

(* what does hold: every tool but get_top_videos leaves the records as     *)
(* they are, and get_top_videos adds engagement_rate_pct to each and       *)
(* changes no other field                                                  *)
C26_OnlyTopVideosAdds ==
    AnalyticsFetched =>
        IF tool # "get_top_videos" THEN loc.videos = loc.fetched
        ELSE /\ Len(loc.videos) = Len(loc.fetched)
             /\ \A i \in 1..Len(loc.fetched) :
                  /\ DOMAIN loc.videos[i] =
                         DOMAIN loc.fetched[i] \cup {"engagement_rate_pct"}
                  /\ \A k \in DOMAIN loc.fetched[i] :
                         loc.videos[i][k] = loc.fetched[i][k]

(* get_top_videos has returned and the fetched record carries a field the  *)
(* normalizer did not give it                                              *)
C26_Witness ==
    /\ AnalyticsFetched /\ tool = "get_top_videos" /\ out.kind = "return"
    /\ Len(loc.fetched) = 2
    /\ "engagement_rate_pct" \notin DOMAIN loc.fetched[1]
    /\ "engagement_rate_pct" \in DOMAIN loc.videos[1]
    /\ loc.videos[1].views = 3 /\ loc.videos[1].likes = 2
    /\ loc.videos[1].engagement_rate_pct > 0

-----------------------------------------------------------------------------
(* The claim about the sign of the normalized numbers.                     *)

VideoNormalized ==
    tool = "_fetch_videos_for_channel" /\ pc = "done" /\ out.kind = "return"

(* the counts and the duration are not negative, and neither is the rate   *)
(* derived from them                                                       *)
NonNegativeRecord(record) ==
    /\ record.views \in Nat /\ record.likes \in Nat /\ record.comments \in Nat
    /\ record.duration_seconds \in Nat
    /\ Engagement(record.views, record.likes, record.comments).num >= 0
    /\ Engagement(record.views, record.likes, record.comments).den > 0
    /\ _safe_float(Engagement(record.views, record.likes, record.comments),
                   RateDecimals) >= 0

(* C27: in every normalized record, for every raw upstream record, views,  *)
(* likes and comments are non-negative integers and duration_seconds is a  *)
(* non-negative integer; consequently every derived engagement rate is     *)
(* never negative.                                                         *)
C27_NonNegative == VideoNormalized => NonNegativeRecord(out.value)

(* what does hold: the same for raw records none of whose counts is a      *)
(* negative number                                                         *)
C27_FromNonNegative ==
    (VideoNormalized /\ \A v \in RawCounts : v.n >= 0) => NonNegativeRecord(out.value)

(* a raw record with likeCount -2 under 7 views: the record keeps -2 and   *)
(* its engagement rate is negative                                         *)
C27_Witness ==
    /\ VideoNormalized
    /\ args.item.viewCount = Num(7) /\ args.item.likeCount = Num(-2)
    /\ args.item.commentCount = Num(0)
    /\ out.value.views = 7 /\ out.value.likes = -2
    /\ Engagement(out.value.views, out.value.likes, out.value.comments).num < 0

=============================================================================
